---- MODULE Spec2Model ----
(***************************************************************************)
(* Credit ledger and generation-job lifecycle of the nanogenpro backend.   *)
(*                                                                         *)
(* The persistent store is modelled at the granularity of its statements:  *)
(* every SELECT of a handler is a step of its own that copies what it read *)
(* into the handler's session, every commit is one atomic step that writes *)
(* the session's changes.  A write made through the ORM                    *)
(* (obj.field = v; commit) is an UPDATE by primary key of the changed      *)
(* columns with the value computed from the session's copy; only the       *)
(* UPDATE ... WHERE credits >= price of start_generation is conditional.   *)
(* GenerationStatus is the set of values the services write: the five      *)
(* members of models/generation.py and CANCELLED, which cancel_generation  *)
(* writes; the generations rows carry the idempotency_key column of        *)
(* migration 003.  Activity counters, timestamps and texts that no         *)
(* decision reads are left out of the rows.                                *)
(***************************************************************************)
EXTENDS Integers, Sequences, FiniteSets, TLC

\* ------------------------------------------------------------------ bounds

\* number of concurrent start_generation requests
MaxCalls == 3
\* generations the account already has in the initial state of a scenario
MaxPrior == 4
\* number of status checks after which a provider that terminates reports it
MaxPending == 1
\* store errors the environment may inject in one run
MaxFaults == 2
\* start_generation requests and cancel_generation requests of the
\* lifecycle scenarios
MaxJobs == 1
MaxCancels == 1
\* adjust_user_credits requests, and top-up requests with their approvals
MaxAdjusts == 1
MaxTopups == 1
\* number of concurrent process_referral requests
MaxLinks == 2
\* number of approvals and of rejections sent for one payment
MaxDecisions == 2
\* number of concurrent create_withdrawal_request requests
MaxWCreates == 2
\* number of concurrent decisions on withdrawals
MaxWDecides == 2
\* notification calls the environment may make fail in one run
MaxNoticeFailures == 2
\* deliveries of process_generation for one job
MaxDeliveries == 2
\* cancel_generation requests sent for one job
MaxCancelCalls == 2

\* -------------------------------------------------------- program constants

MAX_ACTIVE_GENERATIONS == 5
RATE_LIMIT_PER_MINUTE == 10
GENERATION_TIMEOUT == 600
poll_interval == 10
DefaultPrice == 10
referral_commission_percent == 25
WelcomeCredits == 10
min_withdrawal_uzs == 300000

\* the rows of the price table the scenarios use
MODEL_PRICES ==
    [m \in {"kling-video/v2.0/master/text-to-video", "wan-ai/wan2.1-t2v-turbo",
            "flux-pro/v1.1-ultra", "nano-banana"} |->
        CASE m = "kling-video/v2.0/master/text-to-video" -> 15
          [] m = "wan-ai/wan2.1-t2v-turbo" -> 5
          [] m = "flux-pro/v1.1-ultra" -> 3
          [] m = "nano-banana" -> 1]

\* MODEL_PRICES.get(model_id, 10)
PriceOf(model_id) ==
    IF model_id \in DOMAIN MODEL_PRICES THEN MODEL_PRICES[model_id] ELSE DefaultPrice

Users == {1, 2, 3}
\* users.referral_code, a unique column
ReferralCodes == <<"R1", "R2", "R3">>
None == 0
NoKey == ""

GenerationStatus ==
    {"PENDING", "PROCESSING", "COMPLETED", "FAILED", "REFUNDED", "CANCELLED"}
ActiveStatus == {"PENDING", "PROCESSING"}

VARIABLES
    users,          \* the users table: id -> row
    generations,    \* the generations table, a row's id is its index
    transactions,   \* the transactions table (the ledger), in insertion order
    payments,       \* the payments table, a row's id is its index
    referrals,      \* the referrals table
    now,            \* the store's clock, in seconds
    calls,          \* start_generation requests: call id -> position and session
    tasks,          \* background tasks added by the start endpoint
    cancels,        \* cancel_generation requests
    adjusts,        \* adjust_user_credits requests
    topups,         \* create_topup_request requests
    confirms,       \* confirm_topup requests
    faults,         \* store errors the environment may still inject
    credits0,       \* history: each user's credits in the initial state
    applied,        \* history: per user, the sum of the credit deltas of the
                    \* operations that reported success
    withdrawals,    \* the withdrawals table, a row's id is its index
    rejects,        \* reject_topup requests
    wcreates,       \* create_withdrawal_request requests
    wdecides,       \* confirm_withdrawal and reject_withdrawal requests
    links,          \* process_referral requests
    rbal0,          \* history: each user's referral_balance in the initial state
    rapplied,       \* history: per user, the sum of the referral_balance deltas
                    \* of the operations that reported success
    sink            \* notification failures the environment may still inject

\* the tables and the requests of the payment side
paystore == <<payments, referrals>>
payprocs == <<topups, confirms>>
\* the withdrawal side, the referral links and the second decisions
wdvars == <<withdrawals, rejects, wcreates, wdecides, links>>
rhist == <<rbal0, rapplied>>

vars == <<users, generations, transactions, now, calls, tasks, cancels, adjusts,
          faults, credits0, applied, paystore, payprocs, wdvars, rhist, sink>>

\* ------------------------------------------------------------------ helpers

RECURSIVE SumAmounts(_)
SumAmounts(s) == IF s = <<>> THEN 0 ELSE Head(s).amount + SumAmounts(Tail(s))

Ids(s) == 1..Len(s)

\* select count(id) where user_id = u and status in (PENDING, PROCESSING)
ActiveCount(u) ==
    Cardinality({g \in Ids(generations) :
        generations[g].user_id = u /\ generations[g].status \in ActiveStatus})

\* select count(id) where user_id = u and created_at >= now - 1 minute
RecentCount(u) ==
    Cardinality({g \in Ids(generations) :
        generations[g].user_id = u /\ generations[g].created_at >= now - 60})

\* check_idempotency: the row with this (user, key), None when there is none
\* or no key was sent
ExistingFor(u, key) ==
    IF key = NoKey THEN None
    ELSE IF \E g \in Ids(generations) :
                generations[g].user_id = u /\ generations[g].idempotency_key = key
         THEN CHOOSE g \in Ids(generations) :
                generations[g].user_id = u /\ generations[g].idempotency_key = key
         ELSE None

Failure(code) == [code |-> code, id |-> None]

IdleCall == [pc |-> "idle", req |-> [user_id |-> None, model_id |-> "",
             generation_type |-> "", idempotency_key |-> NoKey],
             seen |-> 0, result |-> Failure(""), after |-> {}]

\* history: the calls with the same non-empty key and user that had
\* returned when a call with this request came in
Returned(req) ==
    {d \in DOMAIN calls :
        /\ calls[d].pc = "done"
        /\ req.idempotency_key # NoKey
        /\ calls[d].req.idempotency_key = req.idempotency_key
        /\ calls[d].req.user_id = req.user_id}

Refund(u, amount, g) ==
    [user_id |-> u, type |-> "REFUND", amount |-> amount, reference_id |-> g]

\* ------------------------------------------------------- start_generation

\* steps 1: db.get(User), not found, banned.  The session keeps the row.
StartLoadUser(c, req) ==
    /\ calls[c].pc = "idle"
    /\ LET u == req.user_id IN
       calls' = [calls EXCEPT ![c] =
           IF users[u].is_banned
           THEN [@ EXCEPT !.pc = "done", !.req = req,
                          !.result = Failure("USER_BANNED")]
           ELSE [@ EXCEPT !.pc = "loaded", !.req = req,
                          !.seen = users[u].credits,
                          !.after = Returned(req)]]
    /\ UNCHANGED <<users, generations, transactions, now, tasks, cancels, adjusts,
                   faults, credits0, applied, paystore, payprocs, wdvars, rhist,
                   sink>>

\* steps 2 and 3 alone, the price never compared with the credits
StartChecksNoPrice(u, req, seen) ==
    IF ActiveCount(u) >= MAX_ACTIVE_GENERATIONS THEN "MAX_ACTIVE_GENERATIONS"
    ELSE IF RecentCount(u) >= RATE_LIMIT_PER_MINUTE THEN "RATE_LIMIT_EXCEEDED"
    ELSE IF ExistingFor(u, req.idempotency_key) # None THEN "DUPLICATE_REQUEST"
    ELSE "ok"

\* the outcome of steps 2 to 4: check_limits, check_idempotency, the price
\* against the credits the session loaded
StartChecks(u, req, seen) ==
    IF ActiveCount(u) >= MAX_ACTIVE_GENERATIONS THEN "MAX_ACTIVE_GENERATIONS"
    ELSE IF RecentCount(u) >= RATE_LIMIT_PER_MINUTE THEN "RATE_LIMIT_EXCEEDED"
    ELSE IF ExistingFor(u, req.idempotency_key) # None THEN "DUPLICATE_REQUEST"
    ELSE IF seen < PriceOf(req.model_id) THEN "INSUFFICIENT_CREDITS"
    ELSE "ok"

StartCheck(c) ==
    /\ calls[c].pc = "loaded"
    /\ LET r == StartChecks(calls[c].req.user_id, calls[c].req, calls[c].seen) IN
       calls' = [calls EXCEPT ![c] =
           IF r = "ok" THEN [@ EXCEPT !.pc = "checked", !.seen = 0]
           ELSE [@ EXCEPT !.pc = "done", !.result = Failure(r)]]
    /\ UNCHANGED <<users, generations, transactions, now, tasks, cancels, adjusts,
                   faults, credits0, applied, paystore, payprocs, wdvars, rhist,
                   sink>>

\* the debit without its WHERE credits >= price
DebitUnconditional(u, price) == TRUE

\* the job row added although the debit matched no row
InsertedAnyway(rows, row) == Append(rows, row)

\* raise ConcurrentUpdateError() comes before db.add(generation): the
\* generations table after a debit that matched no row
AfterFailedDebit(rows, row) == rows

\* the row count of UPDATE users SET credits = credits - price
\* WHERE id = u AND credits >= price
DebitApplies(u, price) == users[u].credits >= price

NewGeneration(req, price) ==
    [user_id |-> req.user_id, model_id |-> req.model_id,
     generation_type |-> req.generation_type, credits_charged |-> price,
     status |-> "PENDING", idempotency_key |-> req.idempotency_key,
     aiml_task_id |-> None, result_url |-> None, created_at |-> now,
     timeout_at |-> None]

NoPlan == [submit |-> "", pending |-> 0, final |-> "none"]

NewTask(g) ==
    [gen |-> g, pc |-> "queued", elapsed |-> 0, polls |-> 0, plan |-> NoPlan,
     seen |-> 0, raised |-> FALSE, notices |-> <<>>]

\* steps 5 to 8 and the endpoint's add_task: the conditional debit, the
\* generation row, the ledger row and the commit are one transaction
StartCommit(c) ==
    /\ calls[c].pc = "checked"
    /\ LET req == calls[c].req
           u == req.user_id
           price == PriceOf(req.model_id)
           g == Len(generations) + 1
       IN IF DebitApplies(u, price)
          THEN /\ users' = [users EXCEPT ![u].credits = @ - price]
               /\ generations' = Append(generations, NewGeneration(req, price))
               /\ transactions' = Append(transactions,
                      [user_id |-> u, type |-> "GENERATION", amount |-> -price,
                       reference_id |-> g])
               /\ tasks' = Append(tasks, NewTask(g))
               /\ applied' = [applied EXCEPT ![u] = @ - price]
               /\ calls' = [calls EXCEPT ![c].pc = "done",
                      ![c].result = [code |-> "ok", id |-> g]]
          ELSE /\ calls' = [calls EXCEPT ![c].pc = "done",
                      ![c].result = Failure("CONCURRENT_UPDATE")]
               /\ generations' =
                      AfterFailedDebit(generations, NewGeneration(req, price))
               /\ UNCHANGED <<users, transactions, tasks, applied>>
    /\ UNCHANGED <<now, cancels, adjusts, faults, credits0, paystore, payprocs,
                   wdvars, rhist, sink>>

\* --------------------------------------------------------------- provider

Never == -1

\* what the provider will answer for one job: to the submission, then to the
\* status checks (pending for the first `pending` checks, then `final`;
\* pending for ever when pending = Never)
ImagePlans ==
    {[submit |-> r, pending |-> 0, final |-> "none"] : r \in {"url", "nourl", "error"}}
VideoPlans ==
    {[submit |-> "task", pending |-> n, final |-> f] :
        n \in 0..MaxPending, f \in {"url", "nourl", "failed"}}
    \cup {[submit |-> "task", pending |-> Never, final |-> "none"]}
    \cup {[submit |-> r, pending |-> 0, final |-> "none"] : r \in {"notask", "error"}}

PlansFor(generation_type) ==
    IF generation_type = "image" THEN ImagePlans ELSE VideoPlans

\* get_video_status as wait_for_video reads it at the n-th check (from 0)
StatusAt(plan, n) ==
    IF plan.pending = Never \/ n < plan.pending THEN "pending"
    ELSE IF plan.final = "failed" THEN "failed"
    ELSE "completed"

\* ----------------------------------------------------- process_generation
\* A task's session keeps the generation row it loaded; user_id and
\* credits_charged never change, so they are read from the table.

TaskAt(t, pcs) == t \in DOMAIN tasks /\ tasks[t].pc \in pcs

\* the status test left out: every delivery is processed
ProcessAppliesAlways(status) == TRUE

\* process_generation goes on when generation.status is PENDING
ProcessApplies(status) == status = "PENDING"

\* step 1, db.get(Generation), and the idempotency test on its status
ProcGet(t) ==
    /\ TaskAt(t, {"queued"})
    /\ tasks' = [tasks EXCEPT ![t].pc =
           IF ~ProcessApplies(generations[tasks[t].gen].status) THEN "done" ELSE "got"]
    /\ UNCHANGED <<users, generations, transactions, now, calls, cancels, adjusts,
                   faults, credits0, applied, paystore, payprocs, wdvars, rhist,
                   sink>>

\* the status a task writes when it starts the job
StartedStatus == "PROCESSING"

\* what one call of telegram_service can do: return, or raise while the
\* environment may still inject a failure
SinkOutcomes == IF sink > 0 THEN {TRUE, FALSE} ELSE {TRUE}

\* a notification call without its try/except: the error goes up
NoticeErrorRaised(kind) == FALSE

\* try: await telegram_service.send_...; except Exception: logger.error
NoticeErrorLogged(kind) == TRUE

\* the task after a notification call: the call is recorded; an error that
\* is not logged away takes the task to where the exception is handled
AfterNotice(k, kind, ok, next, handler) ==
    [k EXCEPT !.notices = Append(@, [kind |-> kind, ok |-> ok]),
              !.pc = IF ok \/ NoticeErrorLogged(kind) THEN next ELSE handler,
              !.raised = IF ok \/ NoticeErrorLogged(kind) THEN @ ELSE TRUE]

\* steps 2 and 3: status = PROCESSING, commit, the started notice
ProcStart(t) ==
    /\ TaskAt(t, {"got"})
    /\ generations' = [generations EXCEPT ![tasks[t].gen].status = StartedStatus]
    /\ \E ok \in SinkOutcomes :
          /\ sink' = IF ok THEN sink ELSE sink - 1
          /\ tasks' = [tasks EXCEPT ![t] =
                 AfterNotice(@, "started", ok, "started", "fallback")]
    /\ UNCHANGED <<users, transactions, now, calls, cancels, adjusts, faults,
                   credits0, applied, paystore, payprocs, wdvars, rhist>>

\* step 2 when the commit raises: outside the try, the exception reaches
\* process_generation_background
ProcStartRaises(t) ==
    /\ TaskAt(t, {"got"})
    /\ faults > 0
    /\ faults' = faults - 1
    /\ tasks' = [tasks EXCEPT ![t].pc = "fallback", ![t].raised = TRUE]
    /\ UNCHANGED <<users, generations, transactions, now, calls, cancels, adjusts,
                   credits0, applied, paystore, payprocs, wdvars, rhist, sink>>

\* steps 4 and 5: the provider call.  An image comes back at once; a video
\* gives a task id, which is committed, and the wait starts.  No url, no
\* task id and a provider error raise into the except branch.
ProcSubmit(t, plan) ==
    /\ TaskAt(t, {"started"})
    /\ plan \in PlansFor(generations[tasks[t].gen].generation_type)
    /\ tasks' = [tasks EXCEPT ![t] =
           [@ EXCEPT !.plan = plan,
                     !.raised = plan.submit \notin {"url", "task"},
                     !.pc = CASE plan.submit = "url" -> "result"
                              [] plan.submit = "task" -> "polling"
                              [] OTHER -> "failing"]]
    /\ generations' = [generations EXCEPT ![tasks[t].gen].aiml_task_id =
           IF plan.submit = "task" THEN tasks[t].gen ELSE @]
    /\ UNCHANGED <<users, transactions, now, calls, cancels, adjusts, faults,
                   credits0, applied, paystore, payprocs, wdvars, rhist, sink>>

\* the loop test taken one turn too far
MayPollInclusive(elapsed, max_wait) == elapsed <= max_wait

\* wait_for_video's loop test
MayPoll(elapsed, max_wait) == elapsed < max_wait

\* one turn of wait_for_video(task_id, max_wait=GENERATION_TIMEOUT): the
\* loop test, a status check, and the sleep, the return or the raise
ProcPoll(t) ==
    /\ TaskAt(t, {"polling"})
    /\ LET k == tasks[t]
           status == StatusAt(k.plan, k.polls)
       IN tasks' = [tasks EXCEPT ![t] =
           IF ~MayPoll(k.elapsed, GENERATION_TIMEOUT)
           THEN [@ EXCEPT !.pc = "failing", !.raised = TRUE] \* TimeoutError
           ELSE IF status = "pending"
           THEN [@ EXCEPT !.elapsed = @ + poll_interval, !.polls = @ + 1]
           ELSE IF status = "completed" /\ k.plan.final = "url"
           THEN [@ EXCEPT !.polls = @ + 1, !.pc = "result"]
           ELSE [@ EXCEPT !.polls = @ + 1, !.pc = "failing", !.raised = TRUE]]
    /\ UNCHANGED <<users, generations, transactions, now, calls, cancels, adjusts,
                   faults, credits0, applied, paystore, payprocs, wdvars, rhist,
                   sink>>

\* steps 6 and 7: status = COMPLETED, result_url, commit, the result
\* notice (inside the try of process_generation)
ProcComplete(t) ==
    /\ TaskAt(t, {"result"})
    /\ generations' = [generations EXCEPT ![tasks[t].gen].status = "COMPLETED",
                                          ![tasks[t].gen].result_url = 1]
    /\ \E ok \in SinkOutcomes :
          /\ sink' = IF ok THEN sink ELSE sink - 1
          /\ tasks' = [tasks EXCEPT ![t] =
                 AfterNotice(@, "result", ok, "done", "failing")]
    /\ UNCHANGED <<users, transactions, now, calls, cancels, adjusts, faults,
                   credits0, applied, paystore, payprocs, wdvars, rhist>>

\* _handle_generation_failure up to db.get(User): the session loads the
\* user row
FailLoadUser(t) ==
    /\ TaskAt(t, {"failing"})
    /\ tasks' = [tasks EXCEPT ![t].pc = "refunding",
                              ![t].seen = users[generations[tasks[t].gen].user_id].credits]
    /\ UNCHANGED <<users, generations, transactions, now, calls, cancels, adjusts,
                   faults, credits0, applied, paystore, payprocs, wdvars, rhist,
                   sink>>

\* the credits a session writes back for user.credits += amount
CreditsPlus(seen, amount) == seen + amount

\* the commit of a refund: the generation's new status, the user's credits
\* as the session computed them, and the REFUND ledger row
RefundCommit(g, status, seen) ==
    LET u == generations[g].user_id
        price == generations[g].credits_charged
    IN /\ generations' = [generations EXCEPT ![g].status = status]
       /\ users' = [users EXCEPT ![u].credits = CreditsPlus(seen, price)]
       /\ transactions' = Append(transactions, Refund(u, price, g))
       /\ applied' = [applied EXCEPT ![u] = @ + price]

\* _handle_generation_failure's commit and its error notice
FailCommit(t) ==
    /\ TaskAt(t, {"refunding"})
    /\ RefundCommit(tasks[t].gen, "FAILED", tasks[t].seen)
    /\ \E ok \in SinkOutcomes :
          /\ sink' = IF ok THEN sink ELSE sink - 1
          /\ tasks' = [tasks EXCEPT ![t] =
                 AfterNotice(@, "error", ok, "done", "fallback")]
    /\ UNCHANGED <<now, calls, cancels, adjusts, faults, credits0, paystore, payprocs,
                   wdvars, rhist>>

\* _handle_generation_failure's commit raises: the exception leaves the
\* except branch of process_generation
FailCommitRaises(t) ==
    /\ TaskAt(t, {"refunding"})
    /\ faults > 0
    /\ faults' = faults - 1
    /\ tasks' = [tasks EXCEPT ![t].pc = "fallback", ![t].raised = TRUE]
    /\ UNCHANGED <<users, generations, transactions, now, calls, cancels, adjusts,
                   credits0, applied, paystore, payprocs, wdvars, rhist, sink>>

\* ------------------------------------- process_generation_background fallback

\* fallback_db.get(Generation) and the test on its status
FallbackGet(t) ==
    /\ TaskAt(t, {"fallback"})
    /\ tasks' = [tasks EXCEPT ![t].pc =
           IF generations[tasks[t].gen].status \in ActiveStatus
           THEN "fb_got" ELSE "done"]
    /\ UNCHANGED <<users, generations, transactions, now, calls, cancels, adjusts,
                   faults, credits0, applied, paystore, payprocs, wdvars, rhist,
                   sink>>

FallbackLoadUser(t) ==
    /\ TaskAt(t, {"fb_got"})
    /\ tasks' = [tasks EXCEPT ![t].pc = "fb_refunding",
                              ![t].seen = users[generations[tasks[t].gen].user_id].credits]
    /\ UNCHANGED <<users, generations, transactions, now, calls, cancels, adjusts,
                   faults, credits0, applied, paystore, payprocs, wdvars, rhist,
                   sink>>

\* the fallback's commit and its error notice (except: pass)
FallbackCommit(t) ==
    /\ TaskAt(t, {"fb_refunding"})
    /\ RefundCommit(tasks[t].gen, "FAILED", tasks[t].seen)
    /\ \E ok \in SinkOutcomes :
          /\ sink' = IF ok THEN sink ELSE sink - 1
          /\ tasks' = [tasks EXCEPT ![t].pc = "done",
                 ![t].notices = Append(@, [kind |-> "error", ok |-> ok])]
    /\ UNCHANGED <<now, calls, cancels, adjusts, faults, credits0, paystore, payprocs,
                   wdvars, rhist>>

\* the fallback's commit raises: logged as critical, nothing else is done
FallbackCommitRaises(t) ==
    /\ TaskAt(t, {"fb_refunding"})
    /\ faults > 0
    /\ faults' = faults - 1
    /\ tasks' = [tasks EXCEPT ![t].pc = "done"]
    /\ UNCHANGED <<users, generations, transactions, now, calls, cancels, adjusts,
                   credits0, applied, paystore, payprocs, wdvars, rhist, sink>>

\* process_generation_background(generation_id) is delivered once more for
\* a job that exists
Redeliver(g) ==
    /\ g \in Ids(generations)
    /\ Cardinality({t \in DOMAIN tasks : tasks[t].gen = g}) < MaxDeliveries
    /\ tasks' = Append(tasks, NewTask(g))
    /\ UNCHANGED <<users, generations, transactions, now, calls, cancels, adjusts,
                   faults, credits0, applied, paystore, payprocs, wdvars, rhist,
                   sink>>

\* the process running the task stops (restart, kill): the task is gone
WorkerDies(t) ==
    /\ t \in DOMAIN tasks
    /\ tasks[t].pc \notin {"done", "dead"}
    /\ tasks' = [tasks EXCEPT ![t].pc = "dead"]
    /\ UNCHANGED <<users, generations, transactions, now, calls, cancels, adjusts,
                   faults, credits0, applied, paystore, payprocs, wdvars, rhist,
                   sink>>

\* ------------------------------------------------------ cancel_generation

IdleCancel == [pc |-> "idle", gen |-> None, user_id |-> None, seen |-> 0,
               result |-> "", polling |-> FALSE]

\* the checks without the test on the status
CancelChecksNoStatus(g, user_id) ==
    IF g \notin Ids(generations) THEN "GENERATION_NOT_FOUND"
    ELSE IF generations[g].user_id # user_id THEN "FORBIDDEN"
    ELSE "ok"

\* the checks of cancel_generation on the row it loaded
CancelChecks(g, user_id) ==
    IF g \notin Ids(generations) THEN "GENERATION_NOT_FOUND"
    ELSE IF generations[g].user_id # user_id THEN "FORBIDDEN"
    ELSE IF generations[g].status \notin ActiveStatus THEN "CANNOT_CANCEL"
    ELSE "ok"

\* GenerationStatus.CANCELLED as cancel_generation evaluates it: the enum of
\* models/generation.py has no such member, migration 003 announces the
\* status; the member is there, or the lookup raises AttributeError
CancelledMember == {TRUE, FALSE}

\* db.get(Generation), ownership, status, and the assignment of
\* GenerationStatus.CANCELLED to the loaded row
CancelGet(k, g, user_id) ==
    /\ cancels[k].pc = "idle"
    /\ LET r == CancelChecks(g, user_id) IN
       \E member \in CancelledMember :
       cancels' = [cancels EXCEPT ![k] =
           IF r = "ok" /\ member
           THEN [@ EXCEPT !.pc = "got", !.gen = g, !.user_id = user_id,
                          !.polling = \E t \in DOMAIN tasks :
                              tasks[t].gen = g /\ tasks[t].pc = "polling"]
           ELSE [@ EXCEPT !.pc = "done", !.gen = g, !.user_id = user_id,
                          !.result = IF r = "ok" THEN "INTERNAL_ERROR" ELSE r]]
    /\ UNCHANGED <<users, generations, transactions, now, calls, tasks, adjusts,
                   faults, credits0, applied, paystore, payprocs, wdvars, rhist,
                   sink>>

\* db.get(User)
CancelLoadUser(k) ==
    /\ cancels[k].pc = "got"
    /\ cancels' = [cancels EXCEPT ![k].pc = "refunding",
                                  ![k].seen = users[cancels[k].user_id].credits]
    /\ UNCHANGED <<users, generations, transactions, now, calls, tasks, adjusts,
                   faults, credits0, applied, paystore, payprocs, wdvars, rhist,
                   sink>>

\* status = CANCELLED, the refund, commit
CancelCommit(k) ==
    /\ cancels[k].pc = "refunding"
    /\ RefundCommit(cancels[k].gen, "CANCELLED", cancels[k].seen)
    /\ cancels' = [cancels EXCEPT ![k].pc = "done", ![k].result = "ok"]
    /\ UNCHANGED <<now, calls, tasks, adjusts, faults, credits0, paystore, payprocs,
                   wdvars, rhist, sink>>

\* ---------------------------------------------------- adjust_user_credits

IdleAdjust == [pc |-> "idle", user_id |-> None, amount |-> 0, seen |-> 0,
               result |-> ""]

\* the admin check, db.get(User), the negative-balance test
AdjustLoad(a, admin_id, user_id, amount) ==
    /\ adjusts[a].pc = "idle"
    /\ adjusts' = [adjusts EXCEPT ![a] =
           IF ~users[admin_id].is_admin
           THEN [@ EXCEPT !.pc = "done", !.result = "NOT_AUTHORIZED"]
           ELSE IF users[user_id].credits + amount < 0
           THEN [@ EXCEPT !.pc = "done", !.result = "NEGATIVE_BALANCE"]
           ELSE [@ EXCEPT !.pc = "loaded", !.user_id = user_id, !.amount = amount,
                          !.seen = users[user_id].credits]]
    /\ UNCHANGED <<users, generations, transactions, now, calls, tasks, cancels,
                   faults, credits0, applied, paystore, payprocs, wdvars, rhist,
                   sink>>

\* the commit of user.credits += amount
AdjustCommit(a) ==
    /\ adjusts[a].pc = "loaded"
    /\ LET u == adjusts[a].user_id IN
       /\ users' = [users EXCEPT ![u].credits =
              CreditsPlus(adjusts[a].seen, adjusts[a].amount)]
       /\ applied' = [applied EXCEPT ![u] = @ + adjusts[a].amount]
    /\ adjusts' = [adjusts EXCEPT ![a].pc = "done", ![a].result = "ok"]
    /\ UNCHANGED <<generations, transactions, now, calls, tasks, cancels, faults,
                   credits0, paystore, payprocs, wdvars, rhist, sink>>

\* -------------------------------------------------- create_topup_request

\* generate_idempotency_key: the digest of user, amount, action and the
\* hour of the clock, kept as the tuple it digests
IdempotencyKey(user_id, amount, action) == <<user_id, amount, action, now \div 3600>>

IdleTopup == [pc |-> "idle", user_id |-> None, credits |-> 0, amount_uzs |-> 0,
              key |-> <<>>, referrer_id |-> None, result |-> Failure("")]

PaymentWithKey(key) == {i \in Ids(payments) : payments[i].idempotency_key = key}

\* db.get(User), the key, the select of a payment with that key
TopupCheck(i, user_id, credits, amount_uzs) ==
    /\ topups[i].pc = "idle"
    /\ LET key == IdempotencyKey(user_id, amount_uzs, "topup") IN
       topups' = [topups EXCEPT ![i] =
           IF PaymentWithKey(key) # {}
           THEN [@ EXCEPT !.pc = "done", !.user_id = user_id,
                          !.result = [code |-> "duplicate",
                                      id |-> CHOOSE x \in PaymentWithKey(key) : TRUE]]
           ELSE [@ EXCEPT !.pc = "checked", !.user_id = user_id,
                          !.credits = credits, !.amount_uzs = amount_uzs,
                          !.key = key, !.referrer_id = users[user_id].referrer_id]]
    /\ UNCHANGED <<users, generations, transactions, now, calls, tasks, cancels,
                   adjusts, faults, credits0, applied, paystore, confirms,
                   wdvars, rhist, sink>>

\* the insert and the commit; idempotency_key is a unique column
TopupInsert(i) ==
    /\ topups[i].pc = "checked"
    /\ IF PaymentWithKey(topups[i].key) # {}
       THEN /\ topups' = [topups EXCEPT ![i].pc = "done",
                   ![i].result = Failure("INTEGRITY_ERROR")]
            /\ UNCHANGED payments
       ELSE /\ payments' = Append(payments,
                   [user_id |-> topups[i].user_id, credits |-> topups[i].credits,
                    amount_uzs |-> topups[i].amount_uzs, status |-> "PENDING",
                    admin_id |-> None, referrer_id |-> topups[i].referrer_id,
                    referral_commission |-> 0,
                    idempotency_key |-> topups[i].key])
            /\ topups' = [topups EXCEPT ![i].pc = "done",
                   ![i].result = [code |-> "ok", id |-> Len(payments) + 1]]
    /\ UNCHANGED <<users, generations, transactions, now, calls, tasks, cancels,
                   adjusts, faults, credits0, applied, referrals, confirms,
                   wdvars, rhist, sink>>

\* --------------------------------------------------------- confirm_topup

IdleConfirm == [pc |-> "idle", payment |-> None, admin_id |-> None,
                user |-> [credits |-> 0], referrer |-> [credits |-> 0],
                edge |-> None, earned |-> 0, result |-> ""]

\* the commission rounded up instead of truncated
CommissionRoundedUp(amount_uzs) ==
    (amount_uzs * referral_commission_percent + 99) \div 100

\* int(payment_amount_uzs * settings.referral_commission_percent / 100)
Commission(amount_uzs) == (amount_uzs * referral_commission_percent) \div 100

\* the status test left out: every decision goes on
PaymentOpenAlways(status) == TRUE

\* the test payment.status != PaymentStatus.PENDING of both decisions
PaymentOpen(status) == status = "PENDING"

\* db.get(Payment) and the test on its status
ConfirmGet(f, payment_id, admin_id) ==
    /\ confirms[f].pc = "idle"
    /\ confirms' = [confirms EXCEPT ![f] =
           IF payment_id \notin Ids(payments)
           THEN [@ EXCEPT !.pc = "done", !.result = "PAYMENT_NOT_FOUND"]
           ELSE IF ~PaymentOpen(payments[payment_id].status)
           THEN [@ EXCEPT !.pc = "done", !.payment = payment_id,
                          !.result = "ALREADY_PROCESSED"]
           ELSE [@ EXCEPT !.pc = "got", !.payment = payment_id,
                          !.admin_id = admin_id]]
    /\ UNCHANGED <<users, generations, transactions, now, calls, tasks, cancels,
                   adjusts, faults, credits0, applied, paystore, topups, wdvars, rhist,
                   sink>>

\* db.get(User, payment.user_id): the session keeps the row
ConfirmLoadUser(f) ==
    /\ confirms[f].pc = "got"
    /\ LET row == users[payments[confirms[f].payment].user_id] IN
       confirms' = [confirms EXCEPT ![f].user = row,
           ![f].pc = IF row.referrer_id # None THEN "user" ELSE "ready"]
    /\ UNCHANGED <<users, generations, transactions, now, calls, tasks, cancels,
                   adjusts, faults, credits0, applied, paystore, topups, wdvars, rhist,
                   sink>>

\* process_commission: db.get(User, user.referrer_id)
ConfirmLoadReferrer(f) ==
    /\ confirms[f].pc = "user"
    /\ confirms' = [confirms EXCEPT ![f].referrer = users[confirms[f].user.referrer_id],
                                    ![f].pc = "referrer"]
    /\ UNCHANGED <<users, generations, transactions, now, calls, tasks, cancels,
                   adjusts, faults, credits0, applied, paystore, topups, wdvars, rhist,
                   sink>>

EdgeOf(referrer_id, referred_id) ==
    {e \in Ids(referrals) : referrals[e].referrer_id = referrer_id
                            /\ referrals[e].referred_id = referred_id}

\* process_commission: the select of the Referral row
ConfirmLoadReferral(f) ==
    /\ confirms[f].pc = "referrer"
    /\ LET es == EdgeOf(confirms[f].user.referrer_id,
                        payments[confirms[f].payment].user_id) IN
       confirms' = [confirms EXCEPT ![f] =
           IF es = {} THEN [@ EXCEPT !.pc = "ready"]
           ELSE LET e == CHOOSE x \in es : TRUE IN
                [@ EXCEPT !.pc = "ready", !.edge = e,
                          !.earned = referrals[e].total_earned]]
    /\ UNCHANGED <<users, generations, transactions, now, calls, tasks, cancels,
                   adjusts, faults, credits0, applied, paystore, topups, wdvars, rhist,
                   sink>>

\* the commit of the approval: the payment's status, the user's credits and,
\* with a referrer, the commission (process_commission's commit)
ConfirmCommit(f) ==
    /\ confirms[f].pc = "ready"
    /\ LET k == confirms[f]
           p == k.payment
           u == payments[p].user_id
           r == k.user.referrer_id
           c == Commission(payments[p].amount_uzs)
           first == k.user.first_payment_at = None
           withUser == [users EXCEPT
               ![u].credits = CreditsPlus(k.user.credits, payments[p].credits),
               ![u].first_payment_at = IF r # None /\ first THEN 1 ELSE @]
       IN /\ payments' = [payments EXCEPT ![p].status = "APPROVED",
                                           ![p].admin_id = k.admin_id]
          /\ users' = IF r = None THEN withUser
                      ELSE [withUser EXCEPT
                          ![r].referral_total_earned = k.referrer.referral_total_earned + c,
                          ![r].referral_balance = k.referrer.referral_balance + c,
                          ![r].referrals_active =
                              IF first THEN k.referrer.referrals_active + 1 ELSE @]
          /\ referrals' = IF k.edge = None THEN referrals
                          ELSE [referrals EXCEPT ![k.edge].total_earned = k.earned + c]
          /\ applied' = [applied EXCEPT ![u] = @ + payments[p].credits]
          /\ rapplied' = IF r = None THEN rapplied
                         ELSE [rapplied EXCEPT ![r] = @ + c]
          /\ confirms' = [confirms EXCEPT
                 ![f].pc = IF r = None THEN "done" ELSE "committed",
                 ![f].result = IF r = None THEN "ok" ELSE @]
    /\ UNCHANGED <<generations, transactions, now, calls, tasks, cancels, adjusts,
                   faults, credits0, topups, wdvars, rbal0, sink>>

\* payment.referral_commission = commission and confirm_topup's own commit
ConfirmRecordCommission(f) ==
    /\ confirms[f].pc = "committed"
    /\ payments' = [payments EXCEPT ![confirms[f].payment].referral_commission =
           Commission(payments[confirms[f].payment].amount_uzs)]
    /\ confirms' = [confirms EXCEPT ![f].pc = "done", ![f].result = "ok"]
    /\ UNCHANGED <<users, generations, transactions, now, calls, tasks, cancels,
                   adjusts, faults, credits0, applied, referrals, topups,
                   wdvars, rhist, sink>>

\* ----------------------------------------------------------- reject_topup

IdleReject == [pc |-> "idle", payment |-> None, admin_id |-> None, result |-> ""]

\* db.get(Payment) and the test on its status
RejectGet(j, payment_id, admin_id) ==
    /\ rejects[j].pc = "idle"
    /\ rejects' = [rejects EXCEPT ![j] =
           IF payment_id \notin Ids(payments)
           THEN [@ EXCEPT !.pc = "done", !.result = "PAYMENT_NOT_FOUND"]
           ELSE IF ~PaymentOpen(payments[payment_id].status)
           THEN [@ EXCEPT !.pc = "done", !.payment = payment_id,
                          !.result = "ALREADY_PROCESSED"]
           ELSE [@ EXCEPT !.pc = "got", !.payment = payment_id,
                          !.admin_id = admin_id]]
    /\ UNCHANGED <<users, generations, transactions, now, calls, tasks, cancels,
                   adjusts, faults, credits0, applied, paystore, payprocs,
                   withdrawals, wcreates, wdecides, links, rhist, sink>>

\* the commit of status REJECTED and the admin's id
RejectCommit(j) ==
    /\ rejects[j].pc = "got"
    /\ payments' = [payments EXCEPT ![rejects[j].payment].status = "REJECTED",
                                    ![rejects[j].payment].admin_id = rejects[j].admin_id]
    /\ rejects' = [rejects EXCEPT ![j].pc = "done", ![j].result = "ok"]
    /\ UNCHANGED <<users, generations, transactions, now, calls, tasks, cancels,
                   adjusts, faults, credits0, applied, referrals, payprocs,
                   withdrawals, wcreates, wdecides, links, rhist, sink>>

\* ------------------------------------------- create_withdrawal_request

\* a card number as the characters the request carries
Filler(n) == [i \in 1..n |-> "1"]
UzcardCard == <<"8", "6", "0", "0", " ">> \o Filler(4) \o <<" ">> \o Filler(8)
HumoCard == <<"9", "8", "6", "0", "-">> \o Filler(12)
VisaCard == <<"4", "1", "1", "1">> \o Filler(12)
ShortCard == <<"8", "6", "0", "0">> \o Filler(11)

\* card_number.replace(" ", "").replace("-", "")
CleanCard(card_number) == SelectSeq(card_number, LAMBDA ch : ch \notin {" ", "-"})

\* the card test: None when the card is accepted, else the error
CardError(card_number) ==
    LET clean_card == CleanCard(card_number) IN
    IF Len(clean_card) # 16 THEN "INVALID_CARD"
    ELSE IF SubSeq(clean_card, 1, 4) \in {<<"8", "6", "0", "0">>, <<"9", "8", "6", "0">>}
    THEN ""
    ELSE "CARD_NOT_ACCEPTED"

\* card_type of a card that passed the card test
CardTypeOf(clean_card) ==
    IF SubSeq(clean_card, 1, 4) = <<"8", "6", "0", "0">> THEN "UZCARD" ELSE "HUMO"

WithdrawalStatus == {"PENDING", "FROZEN", "APPROVED", "REJECTED"}
OpenStatus == {"PENDING", "FROZEN"}

\* the amount not taken from the balance
BalanceNotFrozen(seen, amount) == seen

\* user.referral_balance -= amount_uzs, on the row the session loaded
BalanceMinus(seen, amount) == seen - amount

IdleWCreate == [pc |-> "idle", user_id |-> None, amount_uzs |-> 0,
                card_number |-> <<>>, seen |-> 0, saved |-> <<>>, key |-> <<>>,
                result |-> Failure("")]

\* the test of the minimum amount left out
WCreateChecksNoMinimum(balance, amount_uzs, card_number) ==
    IF balance < amount_uzs THEN "INSUFFICIENT_BALANCE"
    ELSE IF CardError(card_number) # "" THEN CardError(card_number)
    ELSE "ok"

\* db.get(User) and the tests on the amount, the balance and the card
WCreateChecks(balance, amount_uzs, card_number) ==
    IF amount_uzs < min_withdrawal_uzs THEN "BELOW_MINIMUM"
    ELSE IF balance < amount_uzs THEN "INSUFFICIENT_BALANCE"
    ELSE IF CardError(card_number) # "" THEN CardError(card_number)
    ELSE "ok"

WCreateLoad(w, user_id, amount_uzs, card_number) ==
    /\ wcreates[w].pc = "idle"
    /\ LET r == WCreateChecks(users[user_id].referral_balance, amount_uzs, card_number) IN
       wcreates' = [wcreates EXCEPT ![w] =
           IF r # "ok"
           THEN [@ EXCEPT !.pc = "done", !.user_id = user_id,
                          !.amount_uzs = amount_uzs, !.card_number = card_number,
                          !.result = Failure(r)]
           ELSE [@ EXCEPT !.pc = "loaded", !.user_id = user_id,
                          !.amount_uzs = amount_uzs, !.card_number = card_number,
                          !.seen = users[user_id].referral_balance,
                          !.saved = users[user_id].saved_card_number,
                          !.key = IdempotencyKey(user_id, amount_uzs, "withdraw")]]
    /\ UNCHANGED <<users, generations, transactions, now, calls, tasks, cancels,
                   adjusts, faults, credits0, applied, paystore, payprocs,
                   withdrawals, rejects, wdecides, links, rhist, sink>>

\* the withdrawals of u that are PENDING or FROZEN
OpenWithdrawals(u) ==
    {i \in Ids(withdrawals) :
        withdrawals[i].user_id = u /\ withdrawals[i].status \in OpenStatus}

\* the select of a PENDING or FROZEN withdrawal of the user
WCreateCheck(w) ==
    /\ wcreates[w].pc = "loaded"
    /\ wcreates' = [wcreates EXCEPT ![w] =
           IF OpenWithdrawals(wcreates[w].user_id) # {}
           THEN [@ EXCEPT !.pc = "done", !.result = Failure("PENDING_WITHDRAWAL")]
           ELSE [@ EXCEPT !.pc = "checked"]]
    /\ UNCHANGED <<users, generations, transactions, now, calls, tasks, cancels,
                   adjusts, faults, credits0, applied, paystore, payprocs,
                   withdrawals, rejects, wdecides, links, rhist, sink>>

WithdrawalWithKey(key) ==
    {i \in Ids(withdrawals) : withdrawals[i].idempotency_key = key}

\* user.referral_balance -= amount, the card saved when the loaded row had
\* none, the insert (idempotency_key is a unique column) and the commit
WCreateCommit(w) ==
    /\ wcreates[w].pc = "checked"
    /\ LET k == wcreates[w] IN
       IF WithdrawalWithKey(k.key) # {}
       THEN /\ wcreates' = [wcreates EXCEPT ![w].pc = "done",
                   ![w].result = Failure("INTEGRITY_ERROR")]
            /\ UNCHANGED <<users, withdrawals, rapplied>>
       ELSE /\ users' = [users EXCEPT
                   ![k.user_id].referral_balance = BalanceMinus(k.seen, k.amount_uzs),
                   ![k.user_id].saved_card_number =
                       IF k.saved = <<>> THEN CleanCard(k.card_number) ELSE @,
                   ![k.user_id].saved_card_type =
                       IF k.saved = <<>> THEN CardTypeOf(CleanCard(k.card_number))
                       ELSE @]
            /\ withdrawals' = Append(withdrawals,
                   [user_id |-> k.user_id, amount_uzs |-> k.amount_uzs,
                    card_number |-> CleanCard(k.card_number),
                    card_type |-> CardTypeOf(CleanCard(k.card_number)),
                    status |-> "FROZEN", admin_id |-> None,
                    idempotency_key |-> k.key])
            /\ rapplied' = [rapplied EXCEPT ![k.user_id] = @ - k.amount_uzs]
            /\ wcreates' = [wcreates EXCEPT ![w].pc = "done",
                   ![w].result = [code |-> "ok", id |-> Len(withdrawals) + 1]]
    /\ UNCHANGED <<generations, transactions, now, calls, tasks, cancels, adjusts,
                   faults, credits0, applied, payments, referrals, payprocs,
                   rejects, wdecides, links, rbal0, sink>>

\* ------------------------------ confirm_withdrawal and reject_withdrawal

IdleWDecide == [pc |-> "idle", action |-> "", withdrawal |-> None,
                admin_id |-> None, balance |-> 0, withdrawn |-> 0,
                result |-> ""]

\* handle_withdrawal_action's admin test, db.get(Withdrawal) and the test
\* on its status
WDecideGet(d, action, withdrawal_id, admin_id) ==
    /\ wdecides[d].pc = "idle"
    /\ wdecides' = [wdecides EXCEPT ![d] =
           IF ~users[admin_id].is_admin
           THEN [@ EXCEPT !.pc = "done", !.action = action,
                          !.result = "NOT_AUTHORIZED"]
           ELSE IF withdrawal_id \notin Ids(withdrawals)
           THEN [@ EXCEPT !.pc = "done", !.action = action,
                          !.result = "WITHDRAWAL_NOT_FOUND"]
           ELSE IF withdrawals[withdrawal_id].status \notin OpenStatus
           THEN [@ EXCEPT !.pc = "done", !.action = action,
                          !.withdrawal = withdrawal_id,
                          !.result = "ALREADY_PROCESSED"]
           ELSE [@ EXCEPT !.pc = "got", !.action = action,
                          !.withdrawal = withdrawal_id, !.admin_id = admin_id]]
    /\ UNCHANGED <<users, generations, transactions, now, calls, tasks, cancels,
                   adjusts, faults, credits0, applied, paystore, payprocs,
                   withdrawals, rejects, wcreates, links, rhist, sink>>

\* db.get(User, withdrawal.user_id): the session keeps the row
WDecideLoadUser(d) ==
    /\ wdecides[d].pc = "got"
    /\ LET row == users[withdrawals[wdecides[d].withdrawal].user_id] IN
       wdecides' = [wdecides EXCEPT ![d].pc = "ready",
                                    ![d].balance = row.referral_balance,
                                    ![d].withdrawn = row.referral_withdrawn]
    /\ UNCHANGED <<users, generations, transactions, now, calls, tasks, cancels,
                   adjusts, faults, credits0, applied, paystore, payprocs,
                   withdrawals, rejects, wcreates, links, rhist, sink>>

\* the credit-back left out
BalanceKept(seen, amount) == seen

\* user.referral_balance += withdrawal.amount_uzs
BalancePlus(seen, amount) == seen + amount

\* the withdrawn total left as it was
WithdrawnKept(seen, amount) == seen

\* user.referral_withdrawn += withdrawal.amount_uzs
WithdrawnPlus(seen, amount) == seen + amount

\* the commit of confirm_withdrawal (referral_withdrawn += amount, APPROVED)
\* or of reject_withdrawal (referral_balance += amount, REJECTED)
WDecideCommit(d) ==
    /\ wdecides[d].pc = "ready"
    /\ LET k == wdecides[d]
           u == withdrawals[k.withdrawal].user_id
           a == withdrawals[k.withdrawal].amount_uzs
       IN IF k.action = "approve"
          THEN /\ users' = [users EXCEPT ![u].referral_withdrawn =
                      WithdrawnPlus(k.withdrawn, a)]
               /\ withdrawals' = [withdrawals EXCEPT
                      ![k.withdrawal].status = "APPROVED",
                      ![k.withdrawal].admin_id = k.admin_id]
               /\ UNCHANGED rapplied
          ELSE /\ users' = [users EXCEPT ![u].referral_balance =
                      BalancePlus(k.balance, a)]
               /\ withdrawals' = [withdrawals EXCEPT
                      ![k.withdrawal].status = "REJECTED",
                      ![k.withdrawal].admin_id = k.admin_id]
               /\ rapplied' = [rapplied EXCEPT ![u] = @ + a]
    /\ wdecides' = [wdecides EXCEPT ![d].pc = "done", ![d].result = "ok"]
    /\ UNCHANGED <<generations, transactions, now, calls, tasks, cancels, adjusts,
                   faults, credits0, applied, payments, referrals, payprocs,
                   rejects, wcreates, links, rbal0, sink>>

\* ------------------------------------------------------ process_referral

IdleLink == [pc |-> "idle", new_user_id |-> None, referrer |-> None, count |-> 0,
             result |-> None]

\* select(User).where(User.referral_code == code)
UserWithCode(code) ==
    {u \in Users : users[u].registered /\ users[u].referral_code = code}

\* the select of the referrer by its code, the self-referral test
LinkFindReferrer(l, new_user_id, code) ==
    /\ links[l].pc = "idle"
    /\ links' = [links EXCEPT ![l] =
           IF UserWithCode(code) = {}
           THEN [@ EXCEPT !.pc = "done", !.new_user_id = new_user_id]
           ELSE LET r == CHOOSE u \in UserWithCode(code) : TRUE IN
                IF r = new_user_id
                THEN [@ EXCEPT !.pc = "done", !.new_user_id = new_user_id]
                ELSE [@ EXCEPT !.pc = "referrer", !.new_user_id = new_user_id,
                               !.referrer = r,
                               !.count = users[r].referrals_count]]
    /\ UNCHANGED <<users, generations, transactions, now, calls, tasks, cancels,
                   adjusts, faults, credits0, applied, paystore, payprocs,
                   withdrawals, rejects, wcreates, wdecides, rhist, sink>>

\* the test "already has a referrer" left out
LinkGetUserUnchecked(l) ==
    /\ links[l].pc = "referrer"
    /\ links' = [links EXCEPT ![l].pc = "ready"]
    /\ UNCHANGED <<users, generations, transactions, now, calls, tasks, cancels,
                   adjusts, faults, credits0, applied, paystore, payprocs,
                   withdrawals, rejects, wcreates, wdecides, rhist, sink>>

\* db.get(User, new_user_id) and the test "already has a referrer"
LinkGetUser(l) ==
    /\ links[l].pc = "referrer"
    /\ links' = [links EXCEPT ![l] =
           IF ~users[links[l].new_user_id].registered
           THEN [@ EXCEPT !.pc = "done"]
           ELSE IF users[links[l].new_user_id].referrer_id # None
           THEN [@ EXCEPT !.pc = "done",
                          !.result = users[links[l].new_user_id].referrer_id]
           ELSE [@ EXCEPT !.pc = "ready"]]
    /\ UNCHANGED <<users, generations, transactions, now, calls, tasks, cancels,
                   adjusts, faults, credits0, applied, paystore, payprocs,
                   withdrawals, rejects, wcreates, wdecides, rhist, sink>>

\* the commit: referrer_id, the Referral row, referrals_count += 1
LinkCommit(l) ==
    /\ links[l].pc = "ready"
    /\ LET k == links[l] IN
       /\ users' = [users EXCEPT ![k.new_user_id].referrer_id = k.referrer,
                                 ![k.referrer].referrals_count = k.count + 1]
       /\ referrals' = Append(referrals,
              [referrer_id |-> k.referrer, referred_id |-> k.new_user_id,
               total_earned |-> 0])
       /\ links' = [links EXCEPT ![l].pc = "done", ![l].result = k.referrer]
    /\ UNCHANGED <<generations, transactions, now, calls, tasks, cancels, adjusts,
                   faults, credits0, applied, payments, payprocs,
                   withdrawals, rejects, wcreates, wdecides, rhist, sink>>

\* --------------------------------------------------- get_or_create_user

\* the users row of a telegram id that has not registered
NoUser ==
    [credits |-> 0, is_banned |-> FALSE, is_admin |-> FALSE, referrer_id |-> None,
     referral_code |-> "", referral_balance |-> 0, referral_total_earned |-> 0,
     referral_withdrawn |-> 0, referrals_count |-> 0, referrals_active |-> 0,
     first_payment_at |-> None, saved_card_number |-> <<>>,
     saved_card_type |-> "", registered |-> FALSE]

\* User(id, credits=10, referral_code=generated), referrer_id when a
\* referrer was found
NewUser(id, referrer) ==
    [NoUser EXCEPT !.credits = WelcomeCredits, !.referral_code = ReferralCodes[id],
                   !.referrer_id = referrer, !.registered = TRUE]

\* db.get(User, telegram_user.id): an existing user gets its profile
\* columns updated and is returned
RegGet(l, id) ==
    /\ links[l].pc = "idle"
    /\ links' = [links EXCEPT ![l] =
           IF users[id].registered
           THEN [@ EXCEPT !.pc = "done", !.new_user_id = id,
                          !.result = users[id].referrer_id]
           ELSE [@ EXCEPT !.pc = "creating", !.new_user_id = id]]
    /\ UNCHANGED <<users, generations, transactions, now, calls, tasks, cancels,
                   adjusts, faults, credits0, applied, paystore, payprocs,
                   withdrawals, rejects, wcreates, wdecides, rhist, sink>>

\* if referral_code: the select of the referrer by its code; the user's own
\* code is ignored ("" stands for no code)
RegFindReferrer(l, code) ==
    /\ links[l].pc = "creating"
    /\ links' = [links EXCEPT ![l] =
           IF code = "" \/ UserWithCode(code) \in {{}, {links[l].new_user_id}}
           THEN [@ EXCEPT !.pc = "created", !.referrer = None]
           ELSE [@ EXCEPT !.pc = "created",
                          !.referrer = CHOOSE u \in UserWithCode(code) : TRUE]]
    /\ UNCHANGED <<users, generations, transactions, now, calls, tasks, cancels,
                   adjusts, faults, credits0, applied, paystore, payprocs,
                   withdrawals, rejects, wcreates, wdecides, rhist, sink>>

\* db.add(referral), db.add(user), commit: users.id is the primary key, so
\* the insert fails when the id has registered meanwhile
RegCommit(l) ==
    /\ links[l].pc = "created"
    /\ LET k == links[l] IN
       IF users[k.new_user_id].registered
       THEN /\ links' = [links EXCEPT ![l].pc = "failed"]
            /\ UNCHANGED <<users, referrals>>
       ELSE /\ users' = [users EXCEPT ![k.new_user_id] =
                   NewUser(k.new_user_id, k.referrer)]
            /\ referrals' =
                   IF k.referrer = None THEN referrals
                   ELSE Append(referrals,
                            [referrer_id |-> k.referrer,
                             referred_id |-> k.new_user_id, total_earned |-> 0])
            /\ links' = [links EXCEPT ![l].pc = "done", ![l].result = k.referrer]
    /\ UNCHANGED <<generations, transactions, now, calls, tasks, cancels, adjusts,
                   faults, credits0, applied, payments, payprocs,
                   withdrawals, rejects, wcreates, wdecides, rhist, sink>>

\* ------------------------------------------------------------ initial state

\* a generation an earlier request of user 1 created, still PENDING
PriorGeneration ==
    [user_id |-> 1, model_id |-> "nano-banana", generation_type |-> "image",
     credits_charged |-> PriceOf("nano-banana"), status |-> "PENDING",
     idempotency_key |-> NoKey, aiml_task_id |-> None, result_url |-> None,
     created_at |-> 0, timeout_at |-> None]

\* no withdrawal, second decision or referral link is requested
NoWithdrawals ==
    /\ withdrawals = <<>>
    /\ rejects = <<>>
    /\ wcreates = <<>>
    /\ wdecides = <<>>
    /\ links = <<>>

\* the store with user 1 holding cr credits after n earlier charged requests,
\* user 2 the admin, who earned bal from referrals so far; ref is user 1's
\* referrer (None, or 2 with its edge)
InitStoreB(cr, n, ref, bal) ==
    /\ users = [u \in Users |->
           [credits |-> IF u = 1 THEN cr ELSE WelcomeCredits,
            is_banned |-> FALSE, is_admin |-> (u = 2),
            referrer_id |-> IF u = 1 THEN ref ELSE None,
            referral_code |-> ReferralCodes[u],
            referral_balance |-> IF u = 2 THEN bal ELSE 0,
            referral_total_earned |-> IF u = 2 THEN bal ELSE 0,
            referral_withdrawn |-> 0, referrals_count |-> 0,
            referrals_active |-> 0, first_payment_at |-> None,
            saved_card_number |-> <<>>, saved_card_type |-> "",
                  registered |-> TRUE]]
    /\ payments = <<>>
    /\ referrals = IF ref = None THEN <<>>
                   ELSE <<[referrer_id |-> ref, referred_id |-> 1, total_earned |-> 0]>>
    /\ generations = [g \in 1..n |-> PriorGeneration]
    /\ transactions = [g \in 1..n |->
           [user_id |-> 1, type |-> "GENERATION",
            amount |-> -PriorGeneration.credits_charged, reference_id |-> g]]
    /\ now = 0
    /\ tasks = [g \in 1..n |-> NewTask(g)]
    /\ credits0 = [u \in Users |-> users[u].credits]
    /\ applied = [u \in Users |-> 0]
    /\ rbal0 = [u \in Users |-> users[u].referral_balance]
    /\ rapplied = [u \in Users |-> 0]

InitStore(cr, n, ref) == InitStoreB(cr, n, ref, 0)

\* ---------------------------------------------------- concurrent debits

DebitRequests ==
    {[user_id |-> 1, model_id |-> m, generation_type |-> "image",
      idempotency_key |-> NoKey] : m \in {"flux-pro/v1.1-ultra"}}

InitDebit ==
    /\ \E cr \in 0..10, n \in 0..MaxPrior : InitStore(cr, n, None)
    /\ calls = [c \in 1..MaxCalls |-> IdleCall]
    /\ cancels = <<>>
    /\ adjusts = <<>>
    /\ topups = <<>>
    /\ confirms = <<>>
    /\ faults = 0
    /\ sink = 0
    /\ NoWithdrawals

NextDebit ==
    \/ \E c \in DOMAIN calls, req \in DebitRequests : StartLoadUser(c, req)
    \/ \E c \in DOMAIN calls : StartCheck(c)
    \/ \E c \in DOMAIN calls : StartCommit(c)

SpecDebit == InitDebit /\ [][NextDebit]_vars

\* ------------------------------------------------------ the job lifecycle

LifeRequests ==
    {[user_id |-> 1, model_id |-> "wan-ai/wan2.1-t2v-turbo",
      generation_type |-> "video", idempotency_key |-> NoKey],
     [user_id |-> 1, model_id |-> "flux-pro/v1.1-ultra",
      generation_type |-> "image", idempotency_key |-> NoKey]}

InitLife ==
    /\ \E cr \in {4, 20} : InitStore(cr, 0, None)
    /\ calls = [c \in 1..MaxJobs |-> IdleCall]
    /\ cancels = [k \in 1..MaxCancels |-> IdleCancel]
    /\ adjusts = <<>>
    /\ topups = <<>>
    /\ confirms = <<>>
    /\ faults = MaxFaults
    /\ sink = 0
    /\ NoWithdrawals

StartStep(reqs) ==
    \/ \E c \in DOMAIN calls, req \in reqs : StartLoadUser(c, req)
    \/ \E c \in DOMAIN calls : StartCheck(c)
    \/ \E c \in DOMAIN calls : StartCommit(c)

ProcessStep ==
    \/ \E t \in DOMAIN tasks : ProcGet(t)
    \/ \E t \in DOMAIN tasks : ProcStart(t)
    \/ \E t \in DOMAIN tasks : \E plan \in ImagePlans \cup VideoPlans : ProcSubmit(t, plan)
    \/ \E t \in DOMAIN tasks : ProcPoll(t)
    \/ \E t \in DOMAIN tasks : ProcComplete(t)
    \/ \E t \in DOMAIN tasks : FailLoadUser(t)
    \/ \E t \in DOMAIN tasks : FailCommit(t)

FaultStep ==
    \/ \E t \in DOMAIN tasks : ProcStartRaises(t)
    \/ \E t \in DOMAIN tasks : FailCommitRaises(t)
    \/ \E t \in DOMAIN tasks : FallbackGet(t)
    \/ \E t \in DOMAIN tasks : FallbackLoadUser(t)
    \/ \E t \in DOMAIN tasks : FallbackCommit(t)
    \/ \E t \in DOMAIN tasks : FallbackCommitRaises(t)

CancelStep ==
    \/ \E k \in DOMAIN cancels, g \in 1..MaxJobs, u \in Users : CancelGet(k, g, u)
    \/ \E k \in DOMAIN cancels : CancelLoadUser(k)
    \/ \E k \in DOMAIN cancels : CancelCommit(k)

Next == StartStep(LifeRequests) \/ ProcessStep \/ FaultStep \/ CancelStep

Spec == InitLife /\ [][Next]_vars

\* -------------------------------------- concurrent mutations of credits

LedgerRequests ==
    {[user_id |-> 1, model_id |-> "flux-pro/v1.1-ultra",
      generation_type |-> "image", idempotency_key |-> NoKey]}

InitLedger ==
    /\ \E cr \in {4, 20}, ref \in {None, 2} : InitStore(cr, 0, ref)
    /\ calls = [c \in 1..MaxJobs |-> IdleCall]
    /\ cancels = [k \in 1..MaxCancels |-> IdleCancel]
    /\ adjusts = [a \in 1..MaxAdjusts |-> IdleAdjust]
    /\ topups = [i \in 1..MaxTopups |-> IdleTopup]
    /\ confirms = [f \in 1..MaxTopups |-> IdleConfirm]
    /\ faults = 0
    /\ sink = 0
    /\ NoWithdrawals

ImageProcessStep ==
    \/ \E t \in DOMAIN tasks : ProcGet(t)
    \/ \E t \in DOMAIN tasks : ProcStart(t)
    \/ \E t \in DOMAIN tasks : \E plan \in ImagePlans : ProcSubmit(t, plan)
    \/ \E t \in DOMAIN tasks : ProcComplete(t)
    \/ \E t \in DOMAIN tasks : FailLoadUser(t)
    \/ \E t \in DOMAIN tasks : FailCommit(t)

AdjustStep ==
    \/ \E a \in DOMAIN adjusts, admin \in Users, amount \in {-2, 2} :
           AdjustLoad(a, admin, 1, amount)
    \/ \E a \in DOMAIN adjusts : AdjustCommit(a)

TopupStep ==
    \/ \E i \in DOMAIN topups : TopupCheck(i, 1, 10, 100000)
    \/ \E i \in DOMAIN topups : TopupInsert(i)
    \/ \E f \in DOMAIN confirms, p \in 1..MaxTopups : ConfirmGet(f, p, 2)
    \/ \E f \in DOMAIN confirms : ConfirmLoadUser(f)
    \/ \E f \in DOMAIN confirms : ConfirmLoadReferrer(f)
    \/ \E f \in DOMAIN confirms : ConfirmLoadReferral(f)
    \/ \E f \in DOMAIN confirms : ConfirmCommit(f)
    \/ \E f \in DOMAIN confirms : ConfirmRecordCommission(f)

NextLedger ==
    StartStep(LedgerRequests) \/ ImageProcessStep \/ CancelStep \/ AdjustStep
    \/ TopupStep

SpecLedger == InitLedger /\ [][NextLedger]_vars

\* ---------------------------------------------- requests with a key

KeyedRequests ==
    {[user_id |-> 1, model_id |-> "flux-pro/v1.1-ultra",
      generation_type |-> "image", idempotency_key |-> k] : k \in {"k1", "k2"}}

InitIdem ==
    /\ \E cr \in {2, 3, 6, 20} : InitStore(cr, 0, None)
    /\ calls = [c \in 1..MaxCalls |-> IdleCall]
    /\ cancels = <<>>
    /\ adjusts = <<>>
    /\ topups = <<>>
    /\ confirms = <<>>
    /\ faults = 0
    /\ sink = 0
    /\ NoWithdrawals

SpecIdem == InitIdem /\ [][StartStep(KeyedRequests)]_vars

\* ------------------------------------------- one job, nothing concurrent

SoloRequests ==
    {[user_id |-> 1, model_id |-> m, generation_type |-> "video",
      idempotency_key |-> NoKey] :
        m \in {"kling-video/v2.0/master/text-to-video", "wan-ai/wan2.1-t2v-turbo"}}

InitSolo ==
    /\ \E cr \in {4, 10, 15, 20} : InitStore(cr, 0, None)
    /\ calls = <<IdleCall>>
    /\ cancels = <<>>
    /\ adjusts = <<>>
    /\ topups = <<>>
    /\ confirms = <<>>
    /\ faults = 0
    /\ sink = 0
    /\ NoWithdrawals

SpecSolo == InitSolo /\ [][StartStep(SoloRequests) \/ ProcessStep]_vars

\* ------------------------------------------------- store errors, no cancel

InitFaults ==
    /\ \E cr \in {4, 20} : InitStore(cr, 0, None)
    /\ calls = [c \in 1..MaxJobs |-> IdleCall]
    /\ cancels = <<>>
    /\ adjusts = <<>>
    /\ topups = <<>>
    /\ confirms = <<>>
    /\ faults = MaxFaults
    /\ sink = 0
    /\ NoWithdrawals

SpecFaults ==
    InitFaults /\ [][StartStep(LifeRequests) \/ ProcessStep \/ FaultStep]_vars

\* ------------------------------------------------------- a worker that dies

CrashStep == \E t \in DOMAIN tasks : WorkerDies(t)

\* A task that is running keeps running (the event loop schedules it) and
\* a request that was received is answered; nothing makes a process stay up.
SpecCrash ==
    /\ InitSolo
    /\ [][StartStep(SoloRequests) \/ ProcessStep \/ CrashStep]_vars
    /\ WF_vars(StartStep(SoloRequests))
    /\ WF_vars(ProcessStep)

\* ------------------------------------------------- linking a referrer

InitLink ==
    /\ \E cr \in {4, 20} : InitStore(cr, 0, None)
    /\ calls = <<>>
    /\ cancels = <<>>
    /\ adjusts = <<>>
    /\ topups = <<>>
    /\ confirms = <<>>
    /\ faults = 0
    /\ sink = 0
    /\ withdrawals = <<>>
    /\ rejects = <<>>
    /\ wcreates = <<>>
    /\ wdecides = <<>>
    /\ links = [l \in 1..MaxLinks |-> IdleLink]

LinkStep ==
    \/ \E l \in DOMAIN links, code \in {"R1", "R2", "R3", "XX"} :
           LinkFindReferrer(l, 1, code)
    \/ \E l \in DOMAIN links : LinkGetUser(l)
    \/ \E l \in DOMAIN links : LinkCommit(l)

SpecLink == InitLink /\ [][LinkStep]_vars

\* ------------------------------------- one withdrawal and its decision

WithdrawalAmounts == {200000, 300000, 1000000}

InitPayoutSolo ==
    /\ \E bal \in {0, 300000, 1000000} : InitStoreB(WelcomeCredits, 0, None, bal)
    /\ calls = <<>>
    /\ cancels = <<>>
    /\ adjusts = <<>>
    /\ topups = <<>>
    /\ confirms = <<>>
    /\ faults = 0
    /\ sink = 0
    /\ withdrawals = <<>>
    /\ rejects = <<>>
    /\ wcreates = <<IdleWCreate>>
    /\ wdecides = <<IdleWDecide>>
    /\ links = <<>>

WCreateStep ==
    \/ \E w \in DOMAIN wcreates, a \in WithdrawalAmounts,
          card \in {UzcardCard, HumoCard, VisaCard, ShortCard} :
           WCreateLoad(w, 2, a, card)
    \/ \E w \in DOMAIN wcreates : WCreateCheck(w)
    \/ \E w \in DOMAIN wcreates : WCreateCommit(w)

WDecideStep ==
    \/ \E d \in DOMAIN wdecides, action \in {"approve", "reject"},
          id \in 1..MaxWCreates, admin \in {2, 3} :
           WDecideGet(d, action, id, admin)
    \/ \E d \in DOMAIN wdecides : WDecideLoadUser(d)
    \/ \E d \in DOMAIN wdecides : WDecideCommit(d)

SpecPayoutSolo == InitPayoutSolo /\ [][WCreateStep \/ WDecideStep]_vars

\* --------------------------------- concurrent withdrawals and decisions

InitPayout ==
    /\ \E bal \in {300000, 1000000} : InitStoreB(WelcomeCredits, 0, None, bal)
    /\ calls = <<>>
    /\ cancels = <<>>
    /\ adjusts = <<>>
    /\ topups = <<>>
    /\ confirms = <<>>
    /\ faults = 0
    /\ sink = 0
    /\ withdrawals = <<>>
    /\ rejects = <<>>
    /\ wcreates = [w \in 1..MaxWCreates |-> IdleWCreate]
    /\ wdecides = [d \in 1..MaxWDecides |-> IdleWDecide]
    /\ links = <<>>

SpecPayout == InitPayout /\ [][WCreateStep \/ WDecideStep]_vars

\* ------------------------------------------ decisions on one payment

TopupAmounts == {100000, 50001}

RequestStep ==
    \/ \E i \in DOMAIN topups, a \in TopupAmounts : TopupCheck(i, 1, 100, a)
    \/ \E i \in DOMAIN topups : TopupInsert(i)

ApproveStep ==
    \/ \E f \in DOMAIN confirms, p \in DOMAIN topups : ConfirmGet(f, p, 2)
    \/ \E f \in DOMAIN confirms : ConfirmLoadUser(f)
    \/ \E f \in DOMAIN confirms : ConfirmLoadReferrer(f)
    \/ \E f \in DOMAIN confirms : ConfirmLoadReferral(f)
    \/ \E f \in DOMAIN confirms : ConfirmCommit(f)
    \/ \E f \in DOMAIN confirms : ConfirmRecordCommission(f)

RejectStep ==
    \/ \E j \in DOMAIN rejects, p \in 1..MaxTopups : RejectGet(j, p, 2)
    \/ \E j \in DOMAIN rejects : RejectCommit(j)

InitDecide ==
    /\ \E ref \in {None, 2} : InitStore(WelcomeCredits, 0, ref)
    /\ calls = <<>>
    /\ cancels = <<>>
    /\ adjusts = <<>>
    /\ topups = <<IdleTopup>>
    /\ confirms = [f \in 1..MaxDecisions |-> IdleConfirm]
    /\ faults = 0
    /\ sink = 0
    /\ withdrawals = <<>>
    /\ rejects = [j \in 1..MaxDecisions |-> IdleReject]
    /\ wcreates = <<>>
    /\ wdecides = <<>>
    /\ links = <<>>

SpecDecide == InitDecide /\ [][RequestStep \/ ApproveStep \/ RejectStep]_vars

\* ----------------------------------------- one payment, one approval

InitCommission ==
    /\ \E cr \in {4, 20}, ref \in {None, 2}, bal \in {0, 300000} :
           InitStoreB(cr, 0, ref, bal)
    /\ calls = <<>>
    /\ cancels = <<>>
    /\ adjusts = <<>>
    /\ topups = <<IdleTopup>>
    /\ confirms = <<IdleConfirm>>
    /\ faults = 0
    /\ sink = 0
    /\ NoWithdrawals

SpecCommission == InitCommission /\ [][RequestStep \/ ApproveStep]_vars

\* ------------------------------- approvals of the payments of one account

InitApprovals ==
    /\ \E ref \in {None, 2} : InitStore(WelcomeCredits, 0, ref)
    /\ calls = <<>>
    /\ cancels = <<>>
    /\ adjusts = <<>>
    /\ topups = [i \in 1..MaxDecisions |-> IdleTopup]
    /\ confirms = [f \in 1..MaxDecisions |-> IdleConfirm]
    /\ faults = 0
    /\ sink = 0
    /\ NoWithdrawals

SpecApprovals == InitApprovals /\ [][RequestStep \/ ApproveStep]_vars

\* ------------------------------------- one job, notifications that fail

InitNotify ==
    /\ \E cr \in {4, 20} : InitStore(cr, 0, None)
    /\ calls = <<IdleCall>>
    /\ cancels = <<>>
    /\ adjusts = <<>>
    /\ topups = <<>>
    /\ confirms = <<>>
    /\ faults = 0
    /\ sink = MaxNoticeFailures
    /\ NoWithdrawals

SpecNotify == InitNotify /\ [][StartStep(LifeRequests) \/ ProcessStep]_vars

\* --------------------------------- one job, its processing delivered twice

RedeliverStep == \E g \in 1..MaxJobs : Redeliver(g)

SpecRedeliver ==
    InitSolo /\ [][StartStep(LifeRequests) \/ ProcessStep \/ RedeliverStep]_vars

\* ------------------------------------------- one job, cancelled repeatedly

InitCancel ==
    /\ \E cr \in {4, 20} : InitStore(cr, 0, None)
    /\ calls = <<IdleCall>>
    /\ cancels = [k \in 1..MaxCancelCalls |-> IdleCancel]
    /\ adjusts = <<>>
    /\ topups = <<>>
    /\ confirms = <<>>
    /\ faults = 0
    /\ sink = 0
    /\ NoWithdrawals

SpecCancel ==
    InitCancel /\ [][StartStep(LifeRequests) \/ ProcessStep \/ CancelStep]_vars

\* ------------------------------- requests of an account with active jobs

InitBusy ==
    /\ \E cr \in {4, 20}, n \in 0..MaxPrior : InitStore(cr, n, None)
    /\ calls = [c \in 1..MaxCalls |-> IdleCall]
    /\ cancels = <<>>
    /\ adjusts = <<>>
    /\ topups = <<>>
    /\ confirms = <<>>
    /\ faults = 0
    /\ sink = 0
    /\ NoWithdrawals

SpecBusy == InitBusy /\ [][StartStep(KeyedRequests)]_vars

\* ------------------------- top-ups and withdrawals, one after the other

\* user 1, referred by user 2, tops up; user 2 earns and withdraws
InitEarnings ==
    /\ \E bal \in {300000, 1000000} : InitStoreB(WelcomeCredits, 0, 2, bal)
    /\ calls = <<>>
    /\ cancels = <<>>
    /\ adjusts = <<>>
    /\ topups = <<IdleTopup>>
    /\ confirms = <<IdleConfirm>>
    /\ faults = 0
    /\ sink = 0
    /\ withdrawals = <<>>
    /\ rejects = <<>>
    /\ wcreates = <<IdleWCreate, IdleWCreate>>
    /\ wdecides = <<IdleWDecide, IdleWDecide>>
    /\ links = <<>>

\* each handler runs to its end before the next request is served: after
\* every step at most one call is between its first read and its commit
SpecEarnings ==
    InitEarnings /\
    [][/\ RequestStep \/ ApproveStep \/ WCreateStep \/ WDecideStep
       /\ Cardinality({i \in DOMAIN topups' : topups'[i].pc \notin {"idle", "done"}})
          + Cardinality({f \in DOMAIN confirms' : confirms'[f].pc \notin {"idle", "done"}})
          + Cardinality({w \in DOMAIN wcreates' : wcreates'[w].pc \notin {"idle", "done"}})
          + Cardinality({d \in DOMAIN wdecides' : wdecides'[d].pc \notin {"idle", "done"}})
          <= 1]_vars

\* ------------------------- a referrer linked while a payment is pending

InitSnapshot ==
    /\ \E cr \in {4, 20}, ref \in {None, 2} : InitStore(cr, 0, ref)
    /\ calls = <<>>
    /\ cancels = <<>>
    /\ adjusts = <<>>
    /\ topups = <<IdleTopup>>
    /\ confirms = <<IdleConfirm>>
    /\ faults = 0
    /\ sink = 0
    /\ withdrawals = <<>>
    /\ rejects = <<>>
    /\ wcreates = <<>>
    /\ wdecides = <<>>
    /\ links = <<IdleLink>>

SpecSnapshot == InitSnapshot /\ [][RequestStep \/ LinkStep \/ ApproveStep]_vars

\* ------------------------------------------- registration and linking

\* telegram id 1 has not registered, or has registered without a referrer
InitRegister ==
    /\ \E cr \in {4, 20}, reg \in BOOLEAN :
          users = [u \in Users |->
              IF u = 1 /\ ~reg THEN NoUser
              ELSE [NewUser(u, None) EXCEPT
                       !.credits = IF u = 1 THEN cr ELSE WelcomeCredits,
                       !.is_admin = (u = 2)]]
    /\ generations = <<>>
    /\ transactions = <<>>
    /\ payments = <<>>
    /\ referrals = <<>>
    /\ now = 0
    /\ tasks = <<>>
    /\ credits0 = [u \in Users |-> users[u].credits]
    /\ applied = [u \in Users |-> 0]
    /\ rbal0 = [u \in Users |-> 0]
    /\ rapplied = [u \in Users |-> 0]
    /\ calls = <<>>
    /\ cancels = <<>>
    /\ adjusts = <<>>
    /\ topups = <<>>
    /\ confirms = <<>>
    /\ faults = 0
    /\ sink = 0
    /\ withdrawals = <<>>
    /\ rejects = <<>>
    /\ wcreates = <<>>
    /\ wdecides = <<>>
    /\ links = [l \in 1..MaxLinks |-> IdleLink]

RegisterStep ==
    \/ \E l \in DOMAIN links : RegGet(l, 1)
    \/ \E l \in DOMAIN links, code \in {"", "R1", "R2", "R3", "XX"} :
           RegFindReferrer(l, code)
    \/ \E l \in DOMAIN links : RegCommit(l)

SpecRegister == InitRegister /\ [][RegisterStep \/ LinkStep]_vars

\* ------------------------------------------ requests that are refused

\* user 1 with cr credits and n earlier jobs, PENDING when they are fewer
\* than the rate limit and COMPLETED when they reach it; user 3 is banned
InitRefusals ==
    /\ \E cr \in {2, 6},
          n \in {0, MAX_ACTIVE_GENERATIONS - 1, RATE_LIMIT_PER_MINUTE} :
          /\ users = [u \in Users |->
                 [credits |-> IF u = 1 THEN cr ELSE WelcomeCredits,
                  is_banned |-> (u = 3), is_admin |-> (u = 2),
                  referrer_id |-> None, referral_code |-> ReferralCodes[u],
                  referral_balance |-> 0, referral_total_earned |-> 0,
                  referral_withdrawn |-> 0, referrals_count |-> 0,
                  referrals_active |-> 0, first_payment_at |-> None,
                  saved_card_number |-> <<>>, saved_card_type |-> "",
                  registered |-> TRUE]]
          /\ generations = [g \in 1..n |->
                 [PriorGeneration EXCEPT !.status =
                     IF n >= RATE_LIMIT_PER_MINUTE THEN "COMPLETED" ELSE "PENDING"]]
          /\ transactions = [g \in 1..n |->
                 [user_id |-> 1, type |-> "GENERATION",
                  amount |-> -PriorGeneration.credits_charged, reference_id |-> g]]
    /\ payments = <<>>
    /\ referrals = <<>>
    /\ now = 0
    /\ tasks = <<>>
    /\ credits0 = [u \in Users |-> users[u].credits]
    /\ applied = [u \in Users |-> 0]
    /\ rbal0 = [u \in Users |-> 0]
    /\ rapplied = [u \in Users |-> 0]
    /\ calls = [c \in 1..MaxCalls |-> IdleCall]
    /\ cancels = <<>>
    /\ adjusts = <<>>
    /\ topups = <<>>
    /\ confirms = <<>>
    /\ faults = 0
    /\ sink = 0
    /\ NoWithdrawals

SpecRefusals ==
    InitRefusals /\ [][StartStep(
        {[user_id |-> u, model_id |-> "flux-pro/v1.1-ultra",
          generation_type |-> "image", idempotency_key |-> k] :
            u \in {1, 3}, k \in {NoKey, "k1"}})]_vars

\* ------------------------------------------------------------------ claims

CallsWith(codes) == {c \in DOMAIN calls : calls[c].pc = "done" /\ calls[c].result.code \in codes}

DebitPrice == PriceOf("flux-pro/v1.1-ultra")

\* what concurrent debits of one price leave: no more successes than the
\* balance pays for, each success worth the price, never a negative balance
DebitsPaidFor ==
    /\ Cardinality(CallsWith({"ok"})) * DebitPrice <= credits0[1]
    /\ users[1].credits = credits0[1] - Cardinality(CallsWith({"ok"})) * DebitPrice
    /\ users[1].credits >= 0

\* C2 as stated: with only start_generation calls of one price running on an
\* account, at most floor(b/p) succeed, each success lowers credits by p,
\* credits never drop below 0, and every other call fails with
\* InsufficientCredits or ConcurrentUpdate.
C2_AsStated ==
    /\ DebitsPaidFor
    /\ CallsWith({"ok", "INSUFFICIENT_CREDITS", "CONCURRENT_UPDATE"})
           = {c \in DOMAIN calls : calls[c].pc = "done"}

\* C2 amended: the same, where a call that does not succeed fails with
\* InsufficientCredits, ConcurrentUpdate or one of the limit errors of
\* check_limits (MaxActiveGenerations, RateLimit).
C2_ConcurrentDebits ==
    /\ DebitsPaidFor
    /\ CallsWith({"ok", "INSUFFICIENT_CREDITS", "CONCURRENT_UPDATE",
                  "MAX_ACTIVE_GENERATIONS", "RATE_LIMIT_EXCEEDED"})
           = {c \in DOMAIN calls : calls[c].pc = "done"}

\* a call lost the race for the last credits: it passed the price check and
\* its conditional debit matched no row, after another call succeeded
C2_Witness ==
    /\ CallsWith({"ok"}) # {}
    /\ CallsWith({"CONCURRENT_UPDATE"}) # {}
    /\ CallsWith({"INSUFFICIENT_CREDITS"}) # {}


\* the REFUND ledger rows that reference generation g
RefundsOf(g) ==
    {i \in Ids(transactions) :
        transactions[i].type = "REFUND" /\ transactions[i].reference_id = g}

NoCreditOperationRunning ==
    /\ \A c \in DOMAIN calls : calls[c].pc \in {"idle", "done"}
    /\ \A t \in DOMAIN tasks : tasks[t].pc \in {"done", "dead"}
    /\ \A k \in DOMAIN cancels : cancels[k].pc \in {"idle", "done"}
    /\ \A a \in DOMAIN adjusts : adjusts[a].pc \in {"idle", "done"}
    /\ \A f \in DOMAIN confirms : confirms[f].pc \in {"idle", "done"}

\* C1: under any interleaving of the operations that change credits, the
\* final credits are the initial credits plus the deltas of the operations
\* that reported success, and credits are never negative.
C1_CreditsAreSumOfDeltas ==
    /\ \A u \in Users : users[u].credits >= 0
    /\ NoCreditOperationRunning =>
           \A u \in Users : users[u].credits = credits0[u] + applied[u]


\* calls a then b carry the same key for the same user and b came in after a
\* had returned successfully
OneAfterTheOther(a, b) ==
    /\ calls[b].pc = "done"
    /\ a \in calls[b].after
    /\ calls[a].result.code = "ok"

GenerationsWithKey(u, key) ==
    {g \in Ids(generations) :
        generations[g].user_id = u /\ generations[g].idempotency_key = key}

ChargesFor(gs) ==
    {i \in Ids(transactions) :
        transactions[i].type = "GENERATION" /\ transactions[i].reference_id \in gs}

\* C3: start_generation called twice, one after the other, with the same
\* (account, idempotency key) charges once, creates one job, and both calls
\* return the same job id.
C3_SecondCallReturnsSameJob ==
    \A a, b \in DOMAIN calls :
        (OneAfterTheOther(a, b) /\ calls[b].after = {a}
            /\ \A d \in DOMAIN calls \ {a, b} :
                   calls[d].req.idempotency_key # calls[a].req.idempotency_key) =>
            LET gs == GenerationsWithKey(calls[a].req.user_id,
                                         calls[a].req.idempotency_key)
            IN /\ Cardinality(gs) = 1
               /\ Cardinality(ChargesFor(gs)) = 1
               /\ calls[b].result.id = calls[a].result.id

\* C4: under any interleaving of start_generation calls that carry the same
\* non-empty (account, idempotency key), at most one job with that key
\* exists and the account is charged at most once for it.
C4_OneJobPerKey ==
    \A u \in Users, key \in {"k1", "k2"} :
        /\ Cardinality(GenerationsWithKey(u, key)) <= 1
        /\ Cardinality(ChargesFor(GenerationsWithKey(u, key))) <= 1

TasksOf(g) == {t \in DOMAIN tasks : tasks[t].gen = g}

AllowedTransitions ==
    {<<"PENDING", "PROCESSING">>, <<"PROCESSING", "COMPLETED">>,
     <<"PROCESSING", "FAILED">>, <<"PROCESSING", "REFUNDED">>,
     <<"PENDING", "CANCELLED">>, <<"PROCESSING", "CANCELLED">>}

\* C7: a job's status changes only along the allowed transitions; a status
\* COMPLETED, FAILED, REFUNDED or CANCELLED never changes again.
C7_OnlyAllowedTransitions ==
    [][\A g \in Ids(generations) :
          generations[g].status # generations'[g].status =>
              <<generations[g].status, generations'[g].status>> \in AllowedTransitions]_vars

MaxStatusChecks == GENERATION_TIMEOUT \div poll_interval

\* the ledger rows that reference generation g, in insertion order
LedgerOf(g) == SelectSeq(transactions, LAMBDA x : x.reference_id = g)

\* C8: with a provider that never reports a terminal status, the process
\* stops after max_wait / poll_interval = 60 status checks, the job becomes
\* FAILED, the credits are back at their value before the start, and the
\* job's ledger is the charge followed by one refund of the price.
C8_TimeoutRefunds ==
    \A t \in DOMAIN tasks :
        /\ tasks[t].polls <= MaxStatusChecks
        /\ (tasks[t].plan.pending = Never /\ tasks[t].pc = "done") =>
               LET g == tasks[t].gen
                   price == generations[g].credits_charged
               IN /\ tasks[t].polls = MaxStatusChecks
                  /\ generations[g].status = "FAILED"
                  /\ users[1].credits = credits0[1]
                  /\ LedgerOf(g) =
                         <<[user_id |-> 1, type |-> "GENERATION", amount |-> -price,
                            reference_id |-> g],
                           Refund(1, price, g)>>

\* the kling job (15 credits) of the account with 20 credits timed out
C8_Witness ==
    \E t \in DOMAIN tasks :
        /\ tasks[t].plan.pending = Never /\ tasks[t].pc = "done"
        /\ generations[tasks[t].gen].credits_charged = 15
        /\ generations[tasks[t].gen].status = "FAILED"
        /\ credits0[1] = 20

\* C9: every charged job eventually leaves PENDING and PROCESSING, also
\* when the worker running its process dies.
C9_ChargedJobEnds ==
    (calls[1].result.code = "ok") ~>
        (/\ calls[1].result.code = "ok"
         /\ generations[calls[1].result.id].status \notin ActiveStatus)

\* C10: a process in which an exception was raised ends with the job FAILED
\* and refunded exactly once, never PENDING or PROCESSING and still charged.
C10_ExceptionEndsFailedAndRefunded ==
    \A t \in DOMAIN tasks :
        (tasks[t].raised /\ tasks[t].pc = "done") =>
            /\ generations[tasks[t].gen].status = "FAILED"
            /\ Cardinality(RefundsOf(tasks[t].gen)) = 1

\* C11: start_generation on an account whose credits are below the price
\* (and that passes the limit checks) fails with InsufficientCredits, creates
\* no job and no ledger row and leaves the credits as they were.
C11_InsufficientCredits ==
    \A c \in DOMAIN calls :
        calls[c].pc = "done" =>
            /\ (credits0[1] < PriceOf(calls[c].req.model_id)
                    <=> calls[c].result.code = "INSUFFICIENT_CREDITS")
            /\ calls[c].result.code = "INSUFFICIENT_CREDITS" =>
                   /\ generations = <<>>
                   /\ transactions = <<>>
                   /\ tasks = <<>>
                   /\ users[1].credits = credits0[1]

\* the account with 10 credits asked for the 15-credit model
C11_Witness ==
    /\ credits0[1] = 10
    /\ calls[1].pc = "done"
    /\ PriceOf(calls[1].req.model_id) = 15
    /\ calls[1].result.code = "INSUFFICIENT_CREDITS"
    /\ users[1].credits = 10

\* the Referral rows that name u as the referred user
LinksOf(u) == {e \in Ids(referrals) : referrals[e].referred_id = u}

\* the calls that found a referrer carry codes of different users
DifferentCodes ==
    \A a, b \in DOMAIN links :
        (a # b /\ links[a].referrer # None /\ links[b].referrer # None) =>
            links[a].referrer # links[b].referrer

\* C12: under any interleaving of process_referral calls with different
\* valid codes for an account without a referrer, one referrer_id is
\* persisted, one referrer's count is incremented, and no record shows a
\* referrer other than the one first set.
C12_OneReferrerPersisted ==
    DifferentCodes =>
        /\ Cardinality(LinksOf(1)) <= 1
        /\ \A e \in LinksOf(1) : referrals[e].referrer_id = users[1].referrer_id
        /\ Cardinality({u \in Users : users[u].referrals_count > 0}) <= 1
        /\ (\E l \in DOMAIN links : links[l].pc = "done" /\ links[l].result # None) =>
               /\ users[1].referrer_id # None
               /\ users[users[1].referrer_id].referrals_count = 1

\* C13: a withdrawal of a from a referral balance b >= a (a at least the
\* minimum, an accepted card, no open withdrawal) leaves b - a and a FROZEN
\* withdrawal; rejecting it restores exactly b and makes it REJECTED.
C13_FreezeThenRejectRestores ==
    LET k == wcreates[1]
        d == wdecides[1]
        b == rbal0[2]
        decided == d.pc = "done" /\ d.result = "ok"
    IN k.pc = "done" =>
        /\ k.result.code = "ok" <=> WCreateChecks(b, k.amount_uzs, k.card_number) = "ok"
        /\ (k.result.code = "ok" /\ ~decided) =>
               /\ users[2].referral_balance = b - k.amount_uzs
               /\ withdrawals[k.result.id].status = "FROZEN"
               /\ withdrawals[k.result.id].amount_uzs = k.amount_uzs
        /\ (decided /\ d.action = "reject") =>
               /\ users[2].referral_balance = b
               /\ withdrawals[d.withdrawal].status = "REJECTED"

\* 1,000,000 was withdrawn from a balance of 1,000,000 and the withdrawal
\* was rejected afterwards
C13_Witness ==
    /\ rbal0[2] = 1000000
    /\ wcreates[1].result.code = "ok"
    /\ wcreates[1].amount_uzs = 1000000
    /\ wdecides[1].pc = "done" /\ wdecides[1].result = "ok"
    /\ wdecides[1].action = "reject"
    /\ users[2].referral_balance = 1000000

\* C14: confirming a FROZEN withdrawal of a makes it APPROVED, adds exactly a
\* to referral_withdrawn and leaves referral_balance, referral_total_earned
\* and credits as they were.
C14_ConfirmOnlyAddsWithdrawn ==
    LET d == wdecides[1]
        a == withdrawals[d.withdrawal].amount_uzs
    IN (d.pc = "done" /\ d.result = "ok" /\ d.action = "approve") =>
        /\ withdrawals[d.withdrawal].status = "APPROVED"
        /\ users[2].referral_withdrawn = a
        /\ users[2].referral_balance = rbal0[2] - a
        /\ users[2].referral_total_earned = rbal0[2]
        /\ users[2].credits = credits0[2]

\* the withdrawal of 1,000,000 was confirmed: nothing is left, 1,000,000 is
\* withdrawn
C14_Witness ==
    /\ wdecides[1].pc = "done" /\ wdecides[1].result = "ok"
    /\ wdecides[1].action = "approve"
    /\ users[2].referral_withdrawn = 1000000
    /\ users[2].referral_balance = 0

\* no operation on referral_balance is between its read and its commit
NoBalanceOperationRunning ==
    /\ \A w \in DOMAIN wcreates : wcreates[w].pc \in {"idle", "done"}
    /\ \A d \in DOMAIN wdecides : wdecides[d].pc \in {"idle", "done"}
    /\ \A f \in DOMAIN confirms : confirms[f].pc \in {"idle", "done"}

\* C15: each account has at most one withdrawal that is PENDING or FROZEN,
\* and a create_withdrawal_request made while one exists fails and changes
\* nothing.
C15_OneOpenWithdrawal ==
    \A u \in Users : Cardinality(OpenWithdrawals(u)) <= 1

\* C16: under any interleaving of the operations that change
\* referral_balance, the final balance is the initial balance plus the
\* deltas of the operations that succeeded, the balance is never negative,
\* and the open withdrawals never hold more than the balance had.
C16_BalanceIsSumOfDeltas ==
    /\ \A u \in Users : users[u].referral_balance >= 0
    /\ NoBalanceOperationRunning =>
           \A u \in Users : users[u].referral_balance = rbal0[u] + rapplied[u]

\* C19: of the duplicate or concurrent decisions on one FROZEN withdrawal
\* exactly one takes effect: its amount is credited back at most once, added
\* to referral_withdrawn at most once, and never both.
C19_OneWithdrawalDecision ==
    (Len(withdrawals) = 1 /\ NoBalanceOperationRunning) =>
        LET a == withdrawals[1].amount_uzs
            u == withdrawals[1].user_id
        IN /\ users[u].referral_balance \in {rbal0[u] - a, rbal0[u]}
           /\ users[u].referral_withdrawn \in {0, a}
           /\ ~(users[u].referral_balance = rbal0[u]
                    /\ users[u].referral_withdrawn = a)

\* a decision that comes in when the payment is already APPROVED or REJECTED
LateApproval(f) ==
    /\ confirms[f].pc = "idle" /\ confirms'[f].pc # "idle"
    /\ confirms'[f].payment # None
    /\ payments[confirms'[f].payment].status \in {"APPROVED", "REJECTED"}

LateRejection(j) ==
    /\ rejects[j].pc = "idle" /\ rejects'[j].pc # "idle"
    /\ rejects'[j].payment # None
    /\ payments[rejects'[j].payment].status \in {"APPROVED", "REJECTED"}

\* C17: a confirm_topup or reject_topup that comes in once the payment is
\* APPROVED or REJECTED is refused ("already processed") and changes neither
\* the payment nor the account's credits nor the referrer's balances.
C17_TerminalPaymentStays ==
    [][/\ \A f \in DOMAIN confirms : LateApproval(f) =>
              /\ confirms'[f].pc = "done"
              /\ confirms'[f].result = "ALREADY_PROCESSED"
              /\ UNCHANGED <<users, payments, referrals>>
       /\ \A j \in DOMAIN rejects : LateRejection(j) =>
              /\ rejects'[j].pc = "done"
              /\ rejects'[j].result = "ALREADY_PROCESSED"
              /\ UNCHANGED <<users, payments, referrals>>]_vars

\* an approval was refused on a payment another approval had completed
C17_Witness ==
    \E f, g \in DOMAIN confirms :
        /\ confirms[f].pc = "done" /\ confirms[f].result = "ok"
        /\ confirms[g].pc = "done" /\ confirms[g].result = "ALREADY_PROCESSED"
        /\ confirms[g].payment = confirms[f].payment
        /\ payments[confirms[f].payment].status = "APPROVED"

\* no decision on a payment is between its read and its commit
NoDecisionRunning ==
    /\ \A f \in DOMAIN confirms : confirms[f].pc \in {"idle", "done"}
    /\ \A j \in DOMAIN rejects : rejects[j].pc \in {"idle", "done"}

\* C18: of the duplicate or concurrent decisions on one PENDING payment one
\* takes effect: the credits are added at most once, the commission is
\* credited at most once, and a rejected payment adds nothing.
C18_OnePaymentDecision ==
    (Len(payments) = 1 /\ NoDecisionRunning) =>
        LET p == payments[1]
            c == IF users[1].referrer_id = None THEN 0
                 ELSE (p.amount_uzs * referral_commission_percent) \div 100
        IN /\ users[1].credits \in {credits0[1], credits0[1] + p.credits}
           /\ users[2].referral_balance \in {rbal0[2], rbal0[2] + c}
           /\ p.status = "REJECTED" => users[1].credits = credits0[1]
           /\ p.status = "PENDING" => users[1].credits = credits0[1]

\* floor(A * 25 / 100) for the amounts paid
ExpectedCommission(A) == CASE A = 100000 -> 25000 [] A = 50001 -> 12500

\* C20: approving a payment of A for an account with a referrer adds
\* floor(A * 25 / 100) to the referrer's referral_balance, to its
\* referral_total_earned and to the Referral row's total; without a referrer
\* nobody is credited a commission.
C20_CommissionIsFloorOfPercent ==
    (confirms[1].pc = "done" /\ confirms[1].result = "ok") =>
        LET A == payments[confirms[1].payment].amount_uzs IN
        IF users[1].referrer_id # None
        THEN /\ users[2].referral_balance = rbal0[2] + ExpectedCommission(A)
             /\ users[2].referral_total_earned = rbal0[2] + ExpectedCommission(A)
             /\ referrals[1].total_earned = ExpectedCommission(A)
             /\ payments[confirms[1].payment].referral_commission = ExpectedCommission(A)
        ELSE /\ \A u \in Users : /\ users[u].referral_balance = rbal0[u]
                                  /\ users[u].referral_total_earned = rbal0[u]
             /\ referrals = <<>>
             /\ payments[confirms[1].payment].referral_commission = 0

\* a payment of 100,000 was approved and the referrer holds 25,000 more
C20_Witness ==
    /\ confirms[1].pc = "done" /\ confirms[1].result = "ok"
    /\ payments[confirms[1].payment].amount_uzs = 100000
    /\ users[1].referrer_id = 2
    /\ users[2].referral_balance = rbal0[2] + 25000
    /\ users[2].referral_total_earned = rbal0[2] + 25000

\* the accounts referred by r that have an approved payment
ActiveReferralsOf(r) ==
    {u \in Users : /\ users[u].referrer_id = r
                   /\ \E p \in Ids(payments) : /\ payments[p].user_id = u
                                                /\ payments[p].status = "APPROVED"}

\* C21: whatever the sequence or interleaving of approvals, a referred
\* account has first_payment_at set exactly when it has an approved payment,
\* and its referrer's referrals_active is the number of the referrer's
\* referred accounts that have an approved payment.
C21_ActiveCountedOnce ==
    (NoDecisionRunning /\ users[1].referrer_id = 2
        /\ \A f, g \in DOMAIN confirms :
               (f # g /\ confirms[f].payment # None) =>
                   confirms[f].payment # confirms[g].payment) =>
        /\ users[2].referrals_active = Cardinality(ActiveReferralsOf(2))
        /\ (users[1].first_payment_at # None) <=> (1 \in ActiveReferralsOf(2))

\* the sum of the signed amounts of u's ledger rows of the given types
LedgerSum(u, types) ==
    SumAmounts(SelectSeq(transactions,
        LAMBDA x : x.user_id = u /\ x.type \in types))

\* C22: starting from an empty ledger, in every state each account's credits
\* and referral_balance have changed by the sum of the signed amounts of its
\* ledger rows: every operation that changes a balance writes its row in the
\* same transaction.
C22_LedgerEqualsBalances ==
    \A u \in Users :
        /\ users[u].credits - credits0[u]
               = LedgerSum(u, {"TOPUP", "GENERATION", "REFUND", "BONUS"})
        /\ users[u].referral_balance - rbal0[u]
               = LedgerSum(u, {"REFERRAL", "WITHDRAWAL"})

\* C23: top-up submissions of one account for one amount in one hour,
\* one after the other or overlapping, collapse to one payment: one of them
\* creates it and every other one returns that payment's id with the
\* duplicate marker and creates nothing.
C23_DuplicateTopupsCollapse ==
    /\ \A p, q \in Ids(payments) :
           payments[p].idempotency_key = payments[q].idempotency_key => p = q
    /\ \A i \in DOMAIN topups : topups[i].pc = "done" =>
           /\ topups[i].result.code \in {"ok", "duplicate"}
           /\ payments[topups[i].result.id].user_id = topups[i].user_id

PlanSucceeds(plan) ==
    \/ plan.submit = "url"
    \/ /\ plan.submit = "task" /\ plan.final = "url"
       /\ plan.pending # Never /\ plan.pending * poll_interval < GENERATION_TIMEOUT

\* C28: whatever notification calls fail while a job is processed, the run
\* ends as it does when they succeed: COMPLETED with the charge kept when
\* the provider delivers, else FAILED with the charge refunded once.
C28_NoticeFailureChangesNothing ==
    \A t \in DOMAIN tasks : tasks[t].pc = "done" =>
        LET g == tasks[t].gen
            price == generations[g].credits_charged
        IN IF PlanSucceeds(tasks[t].plan)
           THEN /\ generations[g].status = "COMPLETED"
                /\ users[1].credits = credits0[1] - price
                /\ transactions = <<[user_id |-> 1, type |-> "GENERATION",
                                     amount |-> -price, reference_id |-> g]>>
           ELSE /\ generations[g].status = "FAILED"
                /\ users[1].credits = credits0[1]
                /\ transactions = <<[user_id |-> 1, type |-> "GENERATION",
                                     amount |-> -price, reference_id |-> g],
                                    Refund(1, price, g)>>

\* a job ended COMPLETED although its started and result notices failed
C28_Witness ==
    \E t \in DOMAIN tasks :
        /\ tasks[t].pc = "done"
        /\ generations[tasks[t].gen].status = "COMPLETED"
        /\ Len(tasks[t].notices) = 2
        /\ \A i \in 1..2 : ~tasks[t].notices[i].ok

\* the deliveries for job g that called the provider
Submitted(g) == {t \in DOMAIN tasks : tasks[t].gen = g /\ tasks[t].plan # NoPlan}

\* C25: when process_generation is delivered more than once for a job and
\* the deliveries overlap, the job is submitted to the provider at most
\* once and gets at most one refund.
C25_OneDeliveryActs ==
    \A g \in Ids(generations) :
        /\ Cardinality(Submitted(g)) <= 1
        /\ Len(SelectSeq(transactions,
               LAMBDA x : x.type = "REFUND" /\ x.reference_id = g)) <= 1

\* a cancel_generation call reads job g in this step
CancelReads(k, g) ==
    /\ cancels[k].pc = "idle" /\ cancels'[k].pc # "idle"
    /\ cancels'[k].gen = g

\* C26: cancel_generation by an account that does not own the job fails
\* with FORBIDDEN, and on a job that is COMPLETED, FAILED, REFUNDED or
\* CANCELLED it fails too; the job, the credits and the ledger are unchanged.
C26_RefusedCancelChangesNothing ==
    [][\A k \in DOMAIN cancels : \A g \in Ids(generations) :
          CancelReads(k, g) =>
              /\ generations[g].user_id # cancels'[k].user_id =>
                     /\ cancels'[k].pc = "done"
                     /\ cancels'[k].result = "FORBIDDEN"
                     /\ UNCHANGED <<users, generations, transactions>>
              /\ (/\ generations[g].user_id = cancels'[k].user_id
                  /\ generations[g].status \notin ActiveStatus) =>
                     /\ cancels'[k].pc = "done"
                     /\ cancels'[k].result = "CANNOT_CANCEL"
                     /\ UNCHANGED <<users, generations, transactions>>]_vars

\* the owner's cancel of a FAILED job was refused twice and the job has the
\* one refund of its failure
C26_Witness ==
    \E k, j \in DOMAIN cancels :
        /\ k # j
        /\ cancels[k].pc = "done" /\ cancels[k].result = "CANNOT_CANCEL"
        /\ cancels[j].pc = "done" /\ cancels[j].result = "CANNOT_CANCEL"
        /\ cancels[j].gen = cancels[k].gen
        /\ generations[cancels[k].gen].status = "FAILED"
        /\ Cardinality(RefundsOf(cancels[k].gen)) = 1

\* C27: a cancel_generation by the owner that finds the job PENDING or
\* PROCESSING succeeds: the job becomes CANCELLED, the owner gets the price
\* charged back and one REFUND row of that amount references the job.
C27_OwnerCancelRefunds ==
    \A k \in DOMAIN cancels :
        (/\ cancels[k].pc = "done"
         /\ cancels[k].result \notin
                {"GENERATION_NOT_FOUND", "FORBIDDEN", "CANNOT_CANCEL"}
         /\ \A t \in DOMAIN tasks : tasks[t].pc = "queued"
         /\ \A j \in DOMAIN cancels : j # k => cancels[j].pc = "idle") =>
            LET g == cancels[k].gen IN
            /\ cancels[k].result = "ok"
            /\ generations[g].status = "CANCELLED"
            /\ users[1].credits = credits0[1]
            /\ Cardinality(RefundsOf(g)) = 1
            /\ \A i \in RefundsOf(g) :
                   transactions[i].amount = generations[g].credits_charged

\* C29: start_generation tests the idempotency key before the limits: a
\* request whose (account, key) was used by a request that created a job is
\* answered DUPLICATE_REQUEST, also when the account has
\* MAX_ACTIVE_GENERATIONS active jobs or has reached the rate limit.
C29_DuplicateBeforeLimits ==
    \A c \in DOMAIN calls :
        (/\ calls[c].pc = "done"
         /\ \E d \in calls[c].after : calls[d].result.code = "ok") =>
            calls[c].result.code = "DUPLICATE_REQUEST"

\* C30: whatever the interleaving of start_generation calls, an account
\* has at most MAX_ACTIVE_GENERATIONS jobs that are PENDING or PROCESSING.
C30_AtMostMaxActive ==
    \A u \in Users : ActiveCount(u) <= MAX_ACTIVE_GENERATIONS

\* C31: a start_generation call that returns a failure (USER_BANNED,
\* DUPLICATE_REQUEST, MAX_ACTIVE_GENERATIONS, RATE_LIMIT_EXCEEDED,
\* INSUFFICIENT_CREDITS, CONCURRENT_UPDATE) leaves the credits, the jobs,
\* the ledger and the background tasks as they were.
C31_RefusedCreateChangesNothing ==
    [][\A c \in DOMAIN calls :
          (/\ calls[c].pc # "done" /\ calls'[c].pc = "done"
           /\ calls'[c].result.code # "ok") =>
              UNCHANGED <<users, generations, transactions, tasks>>]_vars

\* a call lost the race for the credits: its debit matched no row, and
\* jobs, ledger and credits are those of the calls that succeeded
C31_Witness ==
    \E c \in DOMAIN calls :
        /\ calls[c].pc = "done"
        /\ calls[c].result.code = "CONCURRENT_UPDATE"
        /\ Len(generations) = Cardinality(CallsWith({"ok"}))
        /\ Len(transactions) = Len(generations)
        /\ users[1].credits = credits0[1] - DebitPrice * Len(generations)

\* C32: a start_generation call that succeeds charges the table price (or
\* the default for an unknown model), inserts the job PENDING with
\* timeout_at = now + GENERATION_TIMEOUT, and the job's credits_charged, the
\* debit of the account and the GENERATION ledger row (-price, reference id
\* = job id) agree and appear in the same step.
C32_CreateChargesAndInserts ==
    [][\A c \in DOMAIN calls :
          (/\ calls[c].pc # "done" /\ calls'[c].pc = "done"
           /\ calls'[c].result.code = "ok") =>
              LET g == calls'[c].result.id
                  u == calls[c].req.user_id
                  price == PriceOf(calls[c].req.model_id)
              IN /\ Len(generations') = Len(generations) + 1
                 /\ g = Len(generations')
                 /\ generations'[g].status = "PENDING"
                 /\ generations'[g].credits_charged = price
                 /\ generations'[g].timeout_at = now + GENERATION_TIMEOUT
                 /\ users'[u].credits = users[u].credits - price
                 /\ transactions' = Append(transactions,
                        [user_id |-> u, type |-> "GENERATION",
                         amount |-> -price, reference_id |-> g])]_vars

\* C33: create_withdrawal_request fails, creates no withdrawal and leaves
\* the account (referral_balance, saved card) unchanged when the amount is
\* below the minimum, the balance is below the amount, the cleaned card has
\* not 16 characters, or its first four are neither 8600 nor 9860; every
\* withdrawal that is created has card type UZCARD for 8600 and HUMO for 9860.
C33_BadWithdrawalRefused ==
    [][/\ \A w \in DOMAIN wcreates :
             LET k == wcreates'[w]
                 clean == CleanCard(k.card_number)
             IN (/\ wcreates[w].pc = "idle" /\ k.pc # "idle"
                 /\ \/ k.amount_uzs < min_withdrawal_uzs
                    \/ users[k.user_id].referral_balance < k.amount_uzs
                    \/ Len(clean) # 16
                    \/ SubSeq(clean, 1, 4) \notin
                          {<<"8", "6", "0", "0">>, <<"9", "8", "6", "0">>}) =>
                    /\ k.pc = "done"
                    /\ k.result.code # "ok"
                    /\ UNCHANGED <<users, withdrawals>>
       /\ \A i \in Ids(withdrawals') :
             LET row == withdrawals'[i] IN
             /\ Len(row.card_number) = 16
             /\ SubSeq(row.card_number, 1, 4) = <<"8", "6", "0", "0">> =>
                    row.card_type = "UZCARD"
             /\ SubSeq(row.card_number, 1, 4) = <<"9", "8", "6", "0">> =>
                    row.card_type = "HUMO"]_vars

\* a request below the minimum was refused while the account has one HUMO
\* withdrawal, whose card is the saved card
C33_Witness ==
    /\ \E w \in DOMAIN wcreates :
          wcreates[w].pc = "done" /\ wcreates[w].result.code = "BELOW_MINIMUM"
    /\ Len(withdrawals) = 1
    /\ withdrawals[1].card_type = "HUMO"
    /\ users[2].saved_card_number = withdrawals[1].card_number
    /\ users[2].saved_card_type = "HUMO"

\* C34: process_referral for an account that it finds with a referrer
\* returns that referrer and changes nothing, whatever other user's code it
\* was given; applying it again gives the same state.
C34_LinkedAccountKeepsReferrer ==
    [][\A l \in DOMAIN links :
          (/\ links[l].pc = "referrer" /\ links'[l].pc # "referrer"
           /\ users[links[l].new_user_id].referrer_id # None) =>
              /\ links'[l].pc = "done"
              /\ links'[l].result = users[links[l].new_user_id].referrer_id
              /\ UNCHANGED <<users, referrals>>]_vars

\* a call with the code of another user than the referrer returned the
\* referrer the account has, and the account has one edge
C34_Witness ==
    \E l \in DOMAIN links :
        /\ links[l].pc = "done"
        /\ links[l].referrer # None
        /\ links[l].result # None
        /\ links[l].result # links[l].referrer
        /\ links[l].result = users[1].referrer_id
        /\ Len(referrals) = 1

\* the edges that record a referrer of account u
EdgesOf(u) == {i \in Ids(referrals) : referrals[i].referred_id = u}

\* C35: however an account obtained its referrer (at registration in
\* get_or_create_user, or later in process_referral), an account with a
\* referrer_id has exactly one edge and that edge names the same referrer,
\* an account without referrer has no edge, and nobody refers themselves.
C35_OneEdgePerReferredAccount ==
    \A u \in Users :
        /\ users[u].referrer_id # u
        /\ users[u].referrer_id = None => EdgesOf(u) = {}
        /\ users[u].referrer_id # None =>
              /\ Cardinality(EdgesOf(u)) = 1
              /\ \A i \in EdgesOf(u) : referrals[i].referrer_id = users[u].referrer_id

\* C40: referrals_count of an account is the number of edges that name it
\* as referrer, whether the edge was created at registration or by
\* process_referral.
C40_CountEqualsEdges ==
    \A u \in Users :
        users[u].referrals_count =
            Cardinality({i \in Ids(referrals) : referrals[i].referrer_id = u})

RECURSIVE FrozenAmount(_, _)
\* the amounts of the PENDING or FROZEN withdrawals of u among the first n
FrozenAmount(u, n) ==
    IF n = 0 THEN 0
    ELSE FrozenAmount(u, n - 1) +
         (IF withdrawals[n].user_id = u /\ withdrawals[n].status \in {"PENDING", "FROZEN"}
          THEN withdrawals[n].amount_uzs ELSE 0)

\* C37: when commission credits, create_withdrawal_request,
\* confirm_withdrawal and reject_withdrawal run one at a time, every account
\* has referral_total_earned = referral_balance + referral_withdrawn + the
\* amounts of its PENDING or FROZEN withdrawals.
C37_EarnedIsBalancePlusPaidPlusFrozen ==
    \A u \in Users :
        users[u].referral_total_earned =
            users[u].referral_balance + users[u].referral_withdrawn
            + FrozenAmount(u, Len(withdrawals))

\* user 2 was credited a commission, had a withdrawal rejected and has a
\* later one frozen
C37_Witness ==
    /\ users[2].referral_total_earned > rbal0[2]
    /\ Len(withdrawals) = 2
    /\ withdrawals[1].status = "REJECTED"
    /\ withdrawals[2].status = "FROZEN"
    /\ users[2].referral_balance < users[2].referral_total_earned

\* C38: after a withdrawal was approved or rejected, a new
\* create_withdrawal_request of the same account for the same amount that
\* passed the tests on minimum, balance and card and found no open
\* withdrawal succeeds, also within the same clock hour.
C38_SameAmountAfterDecision ==
    [][\A w \in DOMAIN wcreates :
          (/\ wcreates[w].pc = "checked" /\ wcreates'[w].pc = "done"
           /\ OpenWithdrawals(wcreates[w].user_id) = {}
           /\ \E i \in Ids(withdrawals) :
                 /\ withdrawals[i].user_id = wcreates[w].user_id
                 /\ withdrawals[i].amount_uzs = wcreates[w].amount_uzs
                 /\ withdrawals[i].status \in {"APPROVED", "REJECTED"}) =>
              wcreates'[w].result.code = "ok"]_vars

RECURSIVE RecordedCommission(_, _)
\* the commissions recorded on the first n payments, APPROVED, whose
\* referrer snapshot is r
RecordedCommission(r, n) ==
    IF n = 0 THEN 0
    ELSE RecordedCommission(r, n - 1) +
         (IF payments[n].status = "APPROVED" /\ payments[n].referrer_id = r
          THEN payments[n].referral_commission ELSE 0)

\* C39: for every APPROVED payment the referrer snapshot stored at its
\* creation names the account that received the commission: a commission
\* is recorded only on a payment with a snapshot, and each account was
\* credited the commissions of the payments whose snapshot names it, also
\* when the payer links a referrer between request and approval.
C39_SnapshotNamesCreditedReferrer ==
    (\A f \in DOMAIN confirms : confirms[f].pc \in {"idle", "done"}) =>
        /\ \A p \in Ids(payments) :
              (payments[p].status = "APPROVED" /\ payments[p].referral_commission # 0)
                  => payments[p].referrer_id # None
        /\ \A r \in Users : rapplied[r] = RecordedCommission(r, Len(payments))

====
